---- MODULE Spec2Model ----
(***************************************************************************)
(* A model of the gdcf caching framework: the cache protocol, the          *)
(* refresh-cache future, the process-request future (gdcf/src/future/      *)
(* process.rs) and the older GdcfFuture (gdcf/src/lib.rs).                 *)
(***************************************************************************)
EXTENDS Integers, Sequences, FiniteSets, TLC

(***************************************************************************)
(* Bounds of the model.                                                    *)
(***************************************************************************)
\* the logical clock runs from 0 to MaxTime
MaxTime == 2
\* number of future slots that can be alive at the same time
NumFutures == 1
\* the cache's configured freshness window (spec 6.4: expiry)
Expiry == 1


(***************************************************************************)
(* Option.                                                                 *)
(***************************************************************************)
None == [kind |-> "None"]
Some(x) == [kind |-> "Some", value |-> x]

(***************************************************************************)
(* Requests.  Field names follow gdcf/src/api/request/level.rs; the        *)
(* force_refresh flag is the one read by Request::forces_refresh().        *)
(***************************************************************************)
BaseRequest == [game_version |-> "2.1", client_version |-> "3.3", secret |-> "secret"]

\* SearchFilters::default
SearchFilters_default ==
    [uncompleted |-> FALSE, completed |-> FALSE, featured |-> FALSE, original |-> FALSE,
     two_player |-> FALSE, coins |-> FALSE, epic |-> FALSE, rated |-> FALSE,
     song |-> None]

\* LevelRequest::new
LevelRequest_new(level_id) ==
    [type |-> "LevelRequest", base |-> BaseRequest, level_id |-> level_id,
     inc |-> TRUE, extra |-> FALSE, force_refresh |-> FALSE]

\* LevelsRequest::default
LevelsRequest_default ==
    [type |-> "LevelsRequest", base |-> BaseRequest, request_type |-> "Featured",
     search_string |-> "", lengths |-> <<>>, ratings |-> <<>>, demon_rating |-> None,
     page |-> 0, total |-> 0, search_filters |-> SearchFilters_default,
     force_refresh |-> FALSE]

\* Request::set_force_refresh
set_force_refresh(req, force) == [req EXCEPT !.force_refresh = force]

\* SongFilter::Custom
Custom(id) == [filter |-> "Custom", id |-> id]

\* SearchFilters::custom_song
SearchFilters_custom_song(filters, id) == [filters EXCEPT !.song = Some(Custom(id))]

\* LevelsRequest::filter
filter(req, filters) == [req EXCEPT !.search_filters = filters]

\* LevelsRequest::request_type
LevelsRequest_request_type(req, request_type) == [req EXCEPT !.request_type = request_type]

\* LevelsRequest::search
search(req, search_string) ==
    [req EXCEPT !.search_string = search_string, !.request_type = "Search"]

\* LevelsRequest::with_id: the id in decimal is the search string
with_id(req, id) == search(req, ToString(id))

NoRequest == [type |-> "none"]

\* the hash of a LevelRequest as it would be if base were fed to the hasher
Hash_LevelRequest_with_base(req) == <<req.base, req.level_id, req.inc, req.extra>>

\* impl Hash for LevelRequest: the values fed to the hasher, in order
Hash_LevelRequest(req) == <<req.level_id, req.inc, req.extra>>

\* the hash of a LevelsRequest as it would be if page were not fed to the
\* hasher
Hash_LevelsRequest_without_page(req) ==
    <<req.search_filters, req.total, req.demon_rating, req.ratings, req.lengths,
      req.search_string, req.request_type>>

\* impl Hash for LevelsRequest: the values fed to the hasher, in order
Hash_LevelsRequest(req) ==
    <<req.search_filters, req.total, req.demon_rating, req.ratings, req.lengths,
      req.search_string, req.request_type, req.page>>

\* the cache key of a request: its type together with what it hashes
Fingerprint(req) ==
    [type |-> req.type,
     hash |-> IF req.type = "LevelRequest" THEN Hash_LevelRequest(req)
              ELSE Hash_LevelsRequest(req)]

CreatorKey(id) == [type |-> "CreatorKey", hash |-> <<id>>]
NewgroundsSongKey(id) == [type |-> "NewgroundsSongKey", hash |-> <<id>>]

\* Request::forces_refresh
forces_refresh(req) == req.force_refresh

(***************************************************************************)
(* The requests the callers issue and the answers of the mock API client.  *)
(***************************************************************************)
TheLevelId == 42
TheSongId == 7
TheCreatorId == 11

SingularRequests == {set_force_refresh(LevelRequest_new(TheLevelId), f) : f \in BOOLEAN}
ListRequests == {set_force_refresh(LevelsRequest_default, f) : f \in BOOLEAN}

\* PartialLevel<Song, User>: the fields as the helpers of upgrade/level.rs
\* list them; custom_song and creator are the two generic slots
PartialLevel(level_id, custom_song, creator) ==
    [level_id |-> level_id, name |-> "name", description |-> "description",
     version |-> 1, difficulty |-> "difficulty", downloads |-> 2,
     main_song |-> "main song", gd_version |-> 21, likes |-> 3, length |-> "length",
     stars |-> 4, featured |-> 5, index_31 |-> "31", copy_of |-> "copy of",
     coin_amount |-> 6, coins_verified |-> FALSE, stars_requested |-> "requested",
     index_40 |-> "40", is_epic |-> TRUE, index_43 |-> "43", object_amount |-> 8,
     index_46 |-> "46", index_47 |-> "47", creator |-> creator,
     custom_song |-> custom_song]

\* Level<Song, User>
Level(base) ==
    [base |-> base, level_data |-> "level data", password |-> "password",
     time_since_update |-> "update", time_since_upload |-> "upload",
     index_36 |-> "36"]

TheLevel == Level(PartialLevel(TheLevelId, Some(TheSongId), TheCreatorId))
ThePartialLevels ==
    << PartialLevel(TheLevelId, Some(TheSongId), TheCreatorId),
       PartialLevel(TheLevelId + 1, None, TheCreatorId) >>

\* the side objects of a response: a newgrounds song and a creator stub
NewgroundsSong(song_id) == [song_id |-> song_id, name |-> "song"]
Creator(user_id) == [user_id |-> user_id, name |-> "creator"]

Ok(value, songs, creators) ==
    [tag |-> "Ok", value |-> value, songs |-> songs, creators |-> creators]

\* the song records and creator stubs a list response carries for its levels
SongsOf(levels) ==
    {levels[i].custom_song.value : i \in {j \in DOMAIN levels : levels[j].custom_song # None}}
CreatorsOf(levels) == {levels[i].creator : i \in DOMAIN levels}
ListOk(levels) == Ok(levels, SongsOf(levels), CreatorsOf(levels))
ApiErr(e) == [tag |-> "Err", err |-> e]

(***************************************************************************)
(* Cache entries and the cache storage contract.                           *)
(***************************************************************************)
Missing == [kind |-> "Missing"]
MarkedAbsent(t) == [kind |-> "MarkedAbsent", stored_at |-> t]
Cached(v, t) == [kind |-> "Cached", value |-> v, stored_at |-> t]

\* the follow-up request of the integrity pass (Gdcf::integrity) for a
\* level whose custom song is song_id
integrity_request(level_id, song_id) ==
    filter(with_id(LevelsRequest_default, level_id),
           SearchFilters_custom_song(SearchFilters_default, song_id))

Keys(reqs) ==
    {Fingerprint(r) : r \in reqs}
        \cup {CreatorKey(TheCreatorId), NewgroundsSongKey(TheSongId)}
        \cup {Fingerprint(integrity_request(TheLevelId, TheSongId))}

lookup(c, key) == c[key]
store(c, key, value, t) == [c EXCEPT ![key] = Cached(value, t)]
mark_absent(c, key, t) == [c EXCEPT ![key] = MarkedAbsent(t)]
is_expired(entry, t) == t - entry.stored_at > Expiry

\* the side objects of a response, each under its own key
RECURSIVE store_all(_, _, _)
store_all(c, keys, t) ==
    IF keys = {} THEN c
    ELSE LET k == CHOOSE x \in keys : TRUE
             object == IF k.type = "NewgroundsSongKey" THEN NewgroundsSong(k.hash[1])
                       ELSE Creator(k.hash[1])
         IN  store_all(store(c, k, object, t), keys \ {k}, t)

SideKeys(resp) ==
    {NewgroundsSongKey(s) : s \in resp.songs} \cup {CreatorKey(u) : u \in resp.creators}

(***************************************************************************)
(* Poll results.                                                           *)
(***************************************************************************)
NoOut == [tag |-> "none"]
NotReady == [tag |-> "NotReady"]
Ready(item) == [tag |-> "Ready", item |-> item]
Err(kind, e) == [tag |-> "Err", kind |-> kind, err |-> e]
Panic == [tag |-> "panic"]

\* a poll that does not return: its task locks a mutex whose guard it holds
\* and waits for it forever, unless the lock panics
Blocked == [tag |-> "blocked"]

(***************************************************************************)
(* The refresh-cache future (spec 4.5).  It is created with the backend    *)
(* call already made; it is inflight until a poll finds the client's       *)
(* future completed.                                                       *)
(***************************************************************************)
NoRefresh == [status |-> "none"]

\* Gdcf::refresh: the request has been handed to make_request
RefreshCacheFuture_new(request) == [status |-> "inflight", request |-> request]

\* what polling the client's future can give: not ready yet, or the answer
\* of the API client to the request: the object (a list response carries
\* the song records and creator stubs of its levels), NoData, or another
\* API error
ClientPoll(req) ==
    {NotReady, ApiErr("NoData"), ApiErr("Other")}
        \cup (IF req.type = "LevelRequest"
                THEN {Ok(TheLevel, {}, {})}
              ELSE {ListOk(ThePartialLevels), ListOk(<<ThePartialLevels[2]>>)})

\* the refresh as it would be if it returned the new entry without writing
\* it under the request's key
RefreshCacheFuture_poll_nostore(r, c, t, inner) ==
    LET key == Fingerprint(r.request)
        done == [status |-> "done", request |-> r.request, response |-> inner]
    IN  IF inner = NotReady THEN [refresh |-> r, cache |-> c, out |-> NotReady]
        ELSE IF inner.tag = "Ok"
          THEN [refresh |-> done, cache |-> store_all(c, SideKeys(inner), t),
                out |-> Ready(Cached(inner.value, t))]
        ELSE IF inner.err = "NoData"
          THEN [refresh |-> done, cache |-> mark_absent(c, key, t),
                out |-> Ready(MarkedAbsent(t))]
        ELSE [refresh |-> done, cache |-> c, out |-> Err("Api", inner.err)]

\* the refresh as it would be if it stored the response without its side
\* objects
RefreshCacheFuture_poll_noside(r, c, t, inner) ==
    LET key == Fingerprint(r.request)
        done == [status |-> "done", request |-> r.request, response |-> inner]
    IN  IF inner = NotReady THEN [refresh |-> r, cache |-> c, out |-> NotReady]
        ELSE IF inner.tag = "Ok"
          THEN [refresh |-> done, cache |-> store(c, key, inner.value, t),
                out |-> Ready(Cached(inner.value, t))]
        ELSE IF inner.err = "NoData"
          THEN [refresh |-> done, cache |-> mark_absent(c, key, t),
                out |-> Ready(MarkedAbsent(t))]
        ELSE [refresh |-> done, cache |-> c, out |-> Err("Api", inner.err)]

\* the refresh as it would be if, after NoData, it removed the entry of the
\* request from the cache instead of marking it absent
RefreshCacheFuture_poll_evicting(r, c, t, inner) ==
    LET key == Fingerprint(r.request)
        done == [status |-> "done", request |-> r.request, response |-> inner]
    IN  IF inner = NotReady THEN [refresh |-> r, cache |-> c, out |-> NotReady]
        ELSE IF inner.tag = "Ok"
          THEN [refresh |-> done,
                cache |-> store(store_all(c, SideKeys(inner), t), key, inner.value, t),
                out |-> Ready(Cached(inner.value, t))]
        ELSE IF inner.err = "NoData"
          THEN [refresh |-> done, cache |-> [c EXCEPT ![key] = Missing],
                out |-> Ready(MarkedAbsent(t))]
        ELSE [refresh |-> done, cache |-> c, out |-> Err("Api", inner.err)]

\* the refresh as it would be if, once the response is written, it kept
\* waiting for the cache instead of returning the new entry
RefreshCacheFuture_poll_storing(r, c, t, inner) ==
    LET key == Fingerprint(r.request)
        done == [status |-> "done", request |-> r.request, response |-> inner]
    IN  IF inner = NotReady THEN [refresh |-> r, cache |-> c, out |-> NotReady]
        ELSE IF inner.tag = "Ok"
          THEN [refresh |-> [r EXCEPT !.status = "storing"],
                cache |-> store(store_all(c, SideKeys(inner), t), key, inner.value, t),
                out |-> NotReady]
        ELSE IF inner.err = "NoData"
          THEN [refresh |-> done, cache |-> mark_absent(c, key, t),
                out |-> Ready(MarkedAbsent(t))]
        ELSE [refresh |-> done, cache |-> c, out |-> Err("Api", inner.err)]

\* poll of a refresh future, inner being what the client's future gives:
\* [refresh, cache, out]
RefreshCacheFuture_poll(r, c, t, inner) ==
    LET key == Fingerprint(r.request)
        done == [status |-> "done", request |-> r.request, response |-> inner]
    IN  IF inner = NotReady THEN [refresh |-> r, cache |-> c, out |-> NotReady]
        ELSE IF inner.tag = "Ok"
          THEN [refresh |-> done,
                cache |-> store(store_all(c, SideKeys(inner), t), key, inner.value, t),
                out |-> Ready(Cached(inner.value, t))]
        ELSE IF inner.err = "NoData"
          THEN [refresh |-> done, cache |-> mark_absent(c, key, t),
                out |-> Ready(MarkedAbsent(t))]
        ELSE [refresh |-> done, cache |-> c, out |-> Err("Api", inner.err)]

(***************************************************************************)
(* Gdcf::process: the selection rule of spec 4.6.  It returns the state of *)
(* the future and the requests it handed to the API client.                *)
(***************************************************************************)
Uncached(refresh) ==
    [variant |-> "Uncached", entry |-> None, refresh |-> refresh, request |-> NoRequest]
Outdated(entry, refresh) ==
    [variant |-> "Outdated", entry |-> entry, refresh |-> refresh, request |-> NoRequest]
UpToDate(entry, request) ==
    [variant |-> "UpToDate", entry |-> entry, refresh |-> NoRefresh, request |-> request]

\* process as it would be if the force-refresh flag were not consulted
process_ignoring_force(request, c, t) ==
    LET entry == lookup(c, Fingerprint(request))
    IN  IF entry.kind = "Missing"
          THEN [state |-> Uncached(RefreshCacheFuture_new(request)), sent |-> <<request>>]
        ELSE IF is_expired(entry, t)
          THEN [state |-> Outdated(entry, RefreshCacheFuture_new(request)),
                sent |-> <<request>>]
        ELSE [state |-> UpToDate(entry, request), sent |-> <<>>]

process(request, c, t) ==
    LET entry == lookup(c, Fingerprint(request))
    IN  IF entry.kind = "Missing"
          THEN [state |-> Uncached(RefreshCacheFuture_new(request)), sent |-> <<request>>]
        ELSE IF is_expired(entry, t) \/ forces_refresh(request)
          THEN [state |-> Outdated(entry, RefreshCacheFuture_new(request)),
                sent |-> <<request>>]
        ELSE [state |-> UpToDate(entry, request), sent |-> <<>>]

(***************************************************************************)
(* ProcessRequestFuture (gdcf/src/future/process.rs).                      *)
(***************************************************************************)
NoFuture == [impl |-> "none"]

\* ProcessRequestFuture::new: [future, sent]
ProcessRequestFuture_new(request, c, t) ==
    LET p == process(request, c, t)
    IN  [future |-> [impl |-> "process", forces_refresh |-> forces_refresh(request),
                     state |-> p.state],
         sent |-> p.sent]

\* poll as it would be if the UpToDate arm reported the future pending
\* instead of handing out its entry
ProcessRequestFuture_poll_pending(fut, c, t, inner) ==
    LET state == fut.state
    IN  IF state.variant = "UpToDate" /\ state.entry = None
          THEN [future |-> fut, cache |-> c, out |-> Panic]
        ELSE IF state.variant \in {"Uncached", "Outdated"}
          THEN LET p == RefreshCacheFuture_poll(state.refresh, c, t, inner)
               IN  [future |-> [fut EXCEPT !.state.refresh = p.refresh],
                    cache |-> p.cache, out |-> p.out]
        ELSE [future |-> fut, cache |-> c, out |-> NotReady]

\* poll as it would be if the Outdated arm served the cached entry instead
\* of waiting for the refresh
ProcessRequestFuture_poll_stale(fut, c, t, inner) ==
    LET state == fut.state
    IN  IF state.variant = "UpToDate" /\ state.entry = None
          THEN [future |-> fut, cache |-> c, out |-> Panic]
        ELSE IF state.variant = "Uncached"
          THEN LET p == RefreshCacheFuture_poll(state.refresh, c, t, inner)
               IN  [future |-> [fut EXCEPT !.state.refresh = p.refresh],
                    cache |-> p.cache, out |-> p.out]
        ELSE [future |-> fut, cache |-> c, out |-> Ready(state.entry)]

\* poll as it would be if the Uncached arm answered from the (empty) cache
\* instead of driving the refresh
ProcessRequestFuture_poll_cold(fut, c, t, inner) ==
    LET state == fut.state
    IN  IF state.variant = "UpToDate" /\ state.entry = None
          THEN [future |-> fut, cache |-> c, out |-> Panic]
        ELSE IF state.variant = "Outdated"
          THEN LET p == RefreshCacheFuture_poll(state.refresh, c, t, inner)
               IN  [future |-> [fut EXCEPT !.state.refresh = p.refresh],
                    cache |-> p.cache, out |-> p.out]
        ELSE IF state.variant = "Uncached"
          THEN [future |-> fut, cache |-> c, out |-> Ready(Missing)]
        ELSE [future |-> [fut EXCEPT !.state.entry = None], cache |-> c,
              out |-> Ready(state.entry)]

\* poll as it would be if the Outdated arm fell back to the cached entry
\* when the refresh fails
ProcessRequestFuture_poll_fallback(fut, c, t, inner) ==
    LET state == fut.state
    IN  IF state.variant = "UpToDate" /\ state.entry = None
          THEN [future |-> fut, cache |-> c, out |-> Panic]
        ELSE IF state.variant \in {"Uncached", "Outdated"}
          THEN LET p == RefreshCacheFuture_poll(state.refresh, c, t, inner)
               IN  [future |-> [fut EXCEPT !.state.refresh = p.refresh],
                    cache |-> p.cache,
                    out |-> IF p.out.tag = "Err" /\ state.variant = "Outdated"
                              THEN Ready(state.entry) ELSE p.out]
        ELSE [future |-> [fut EXCEPT !.state.entry = None], cache |-> c,
              out |-> Ready(state.entry)]

\* ProcessRequestFuture::poll: [future, cache, out]
\* poll as it would be if an UpToDate future whose entry has expired since
\* it was built turned into an Outdated one
ProcessRequestFuture_poll_rechecking(fut, c, t, inner) ==
    LET state == fut.state
    IN  IF state.variant = "UpToDate" /\ state.entry = None
          THEN [future |-> fut, cache |-> c, out |-> Panic]
        ELSE IF state.variant \in {"Uncached", "Outdated"}
          THEN LET p == RefreshCacheFuture_poll(state.refresh, c, t, inner)
               IN  [future |-> [fut EXCEPT !.state.refresh = p.refresh],
                    cache |-> p.cache, out |-> p.out]
        ELSE IF is_expired(state.entry, t)
          THEN [future |-> [fut EXCEPT !.state = Outdated(state.entry,
                                                   RefreshCacheFuture_new(state.request))],
                cache |-> c, out |-> NotReady]
        ELSE [future |-> [fut EXCEPT !.state.entry = None], cache |-> c,
              out |-> Ready(state.entry)]

\* poll as it would be if the UpToDate arm handed out its entry without
\* taking it out of the future
ProcessRequestFuture_poll_keeping(fut, c, t, inner) ==
    LET state == fut.state
    IN  IF state.variant = "UpToDate" /\ state.entry = None
          THEN [future |-> fut, cache |-> c, out |-> Panic]
        ELSE IF state.variant \in {"Uncached", "Outdated"}
          THEN LET p == RefreshCacheFuture_poll(state.refresh, c, t, inner)
               IN  [future |-> [fut EXCEPT !.state.refresh = p.refresh],
                    cache |-> p.cache, out |-> p.out]
        ELSE [future |-> fut, cache |-> c, out |-> Ready(state.entry)]

ProcessRequestFuture_poll(fut, c, t, inner) ==
    LET state == fut.state
    IN  IF state.variant = "UpToDate" /\ state.entry = None
          THEN [future |-> fut, cache |-> c, out |-> Panic]
        ELSE IF state.variant \in {"Uncached", "Outdated"}
          THEN LET p == RefreshCacheFuture_poll(state.refresh, c, t, inner)
               IN  [future |-> [fut EXCEPT !.state.refresh = p.refresh],
                    cache |-> p.cache, out |-> p.out]
        ELSE [future |-> [fut EXCEPT !.state.entry = None], cache |-> c,
              out |-> Ready(state.entry)]

\* the closures given to peek: one fails, one turns the entry into
\* MarkedAbsent, one moves its timestamp by one
Closures == {"fail", "forget", "later"}

\* f(cache_entry) for a closure f
call_closure(f, cache_entry) ==
    IF f = "fail" THEN Err("Cache", "closure")
    ELSE IF f = "forget"
      THEN [tag |-> "Ok", entry |-> MarkedAbsent(cache_entry.stored_at)]
    ELSE [tag |-> "Ok", entry |-> [cache_entry EXCEPT !.stored_at = @ + 1]]

\* peek as it would be if the closure were also applied when there is no
\* cached entry to give it
ProcessRequestFuture_peek_always(fut, f) ==
    LET r == call_closure(f, MarkedAbsent(0))
    IN  IF r.tag = "Err" THEN [tag |-> "Err", error |-> r, future |-> NoFuture, applied |-> 1]
        ELSE [tag |-> "Ok", error |-> NoOut, applied |-> 1,
              future |-> [fut EXCEPT !.state.entry = r.entry]]

\* PeekableFuture::peek: [tag, error, future, applied], applied being the
\* number of times the closure was called
ProcessRequestFuture_peek(fut, f) ==
    LET state == fut.state
        r == call_closure(f, state.entry)
    IN  IF state.variant = "Outdated" \/ (state.variant = "UpToDate" /\ state.entry # None)
          THEN IF r.tag = "Err"
                 THEN [tag |-> "Err", error |-> r, future |-> NoFuture, applied |-> 1]
               ELSE [tag |-> "Ok", error |-> NoOut, applied |-> 1,
                     future |-> [impl |-> "process", forces_refresh |-> fut.forces_refresh,
                                 state |-> [variant |-> state.variant, entry |-> r.entry,
                                            refresh |-> state.refresh,
                                            request |-> state.request]]]
        ELSE [tag |-> "Ok", error |-> NoOut, applied |-> 0,
              future |-> [impl |-> "process", forces_refresh |-> fut.forces_refresh,
                          state |-> state]]

(***************************************************************************)
(* GdcfFuture (gdcf/src/lib.rs), the future of the older handle.  Its item *)
(* is the object itself, not a cache entry.                                *)
(***************************************************************************)
\* GdcfFuture::up_to_date
up_to_date(object) == [impl |-> "gdcf", cached |-> Some(object), refresher |-> NoRefresh]

\* GdcfFuture::outdated
outdated(object, f) == [impl |-> "gdcf", cached |-> Some(object), refresher |-> f]

\* GdcfFuture::absent
absent(f) == [impl |-> "gdcf", cached |-> None, refresher |-> f]

\* GdcfFuture::take: [future, item]
take(fut) == [future |-> [fut EXCEPT !.cached = None], item |-> fut.cached]

\* what the older handle boxes as the refresher of a GdcfFuture
\* (level_future, levels_future): the client's call, then the integrity
\* pass over the response, then the store; followup is the future of the
\* request the integrity pass issued, while it is awaited
level_future(request) ==
    [status |-> "inflight", request |-> request, response |-> NotReady,
     followup |-> NoFuture]

\* levels_future, polled: a list response holds no Level object, so that the
\* integrity pass has nothing to do; the response is stored with its songs
\* and creators; a response without any level is the error NoContent; every
\* API error, NoData included, is the future's error
levels_future_poll(r, c, t, inner) ==
    LET done == [r EXCEPT !.status = "done", !.response = inner]
    IN  IF inner = NotReady THEN [refresh |-> r, cache |-> c, out |-> NotReady]
        ELSE IF inner.tag = "Ok" /\ inner.value = <<>>
          THEN [refresh |-> done, cache |-> c, out |-> Err("NoContent", "NoContent")]
        ELSE IF inner.tag = "Ok"
          THEN [refresh |-> done,
                cache |-> store(store_all(c, SideKeys(inner), t), Fingerprint(r.request),
                                inner.value, t),
                out |-> Ready(inner.value)]
        ELSE [refresh |-> done, cache |-> c, out |-> Err("Api", inner.err)]

\* gdcf_many!: Gdcf::levels of the older handle: [future, sent]
gdcf_many(request, c, t) ==
    LET entry == lookup(c, Fingerprint(request))
    IN  IF entry.kind # "Cached"
          THEN [future |-> absent(level_future(request)), sent |-> <<request>>]
        ELSE IF is_expired(entry, t)
          THEN [future |-> outdated(entry.value, level_future(request)),
                sent |-> <<request>>]
        ELSE [future |-> up_to_date(entry.value), sent |-> <<>>]

\* the two mutexes of a handle (Gdcf.cache, Gdcf.client), both free.  A
\* mutex is "free", or "blocked" for good by a task that waits for a guard
\* it holds itself, or "poisoned" by a task that panicked holding its guard
LocksFree == [cache |-> "free", client |-> "free"]

\* lock!(mutex) by a task that holds the guards `held`: std::sync::Mutex is
\* not reentrant, a second lock by the holder does not return
lock(mutex, held) == IF mutex \in held THEN "relock" ELSE "guard"

\* Gdcf::integrity, had the guard of the song lookup been released before
\* the arms of the match
integrity_releasing(response, c, t) ==
    LET base == response.value.base
        held == {}
        levels(m) == [future |-> m.future, sent |-> m.sent, relock |-> FALSE]
    IN  IF base.custom_song # None
             /\ lookup(c, NewgroundsSongKey(base.custom_song.value)).kind # "Cached"
          THEN IF lock("cache", held) = "relock"
                 THEN [future |-> NoFuture, sent |-> <<>>, relock |-> TRUE]
               ELSE levels(gdcf_many(integrity_request(base.level_id,
                                                       base.custom_song.value), c, t))
        ELSE [future |-> NoFuture, sent |-> <<>>, relock |-> FALSE]

\* Gdcf::integrity over the response to a LevelRequest: when the level has a
\* custom song that the cache does not hold, a request for the levels using
\* that song is made through Gdcf::levels: [future, sent, relock].  The
\* guard of lock!(self.cache) is a temporary of the scrutinee of the match
\* on lookup_song, it lives until the end of the match: self.levels is
\* called in the CacheMiss arm while the guard is held, and the lookup that
\* gdcf_many! starts with locks the cache
integrity(response, c, t) ==
    LET base == response.value.base
        held == {"cache"}
        levels(m) == [future |-> m.future, sent |-> m.sent, relock |-> FALSE]
    IN  IF base.custom_song # None
             /\ lookup(c, NewgroundsSongKey(base.custom_song.value)).kind # "Cached"
          THEN IF lock("cache", held) = "relock"
                 THEN [future |-> NoFuture, sent |-> <<>>, relock |-> TRUE]
               ELSE levels(gdcf_many(integrity_request(base.level_id,
                                                       base.custom_song.value), c, t))
        ELSE [future |-> NoFuture, sent |-> <<>>, relock |-> FALSE]

\* level_future, polled.  inner is what the client's future gives: the one
\* of the level request, or the one of the follow-up while it is awaited.
\* The level is stored when the integrity pass has resolved; an error of the
\* follow-up is the error of the whole future.  An integrity pass that locks
\* the cache a second time does not return: the poll gives Blocked.
level_future_poll(r, c, t, inner) ==
    LET stored(resp, cc) ==
            [refresh |-> [r EXCEPT !.status = "done", !.response = resp,
                                   !.followup = NoFuture],
             cache |-> store(store_all(cc, SideKeys(resp), t), Fingerprint(r.request),
                             resp.value, t),
             out |-> Ready(resp.value)]
        failed(resp) ==
            [refresh |-> [r EXCEPT !.status = "done", !.response = resp,
                                   !.followup = NoFuture],
             cache |-> c, out |-> Err("Api", resp.err)]
    IN  IF inner = NotReady THEN [refresh |-> r, cache |-> c, out |-> NotReady]
        ELSE IF r.followup = NoFuture
          THEN IF inner.tag = "Err" THEN failed(inner)
               ELSE LET i == integrity(inner, c, t)
                    IN  IF i.relock
                          THEN [refresh |-> [r EXCEPT !.status = "relock",
                                                      !.response = inner],
                                cache |-> c, out |-> Blocked]
                        ELSE IF i.future = NoFuture \/ i.future.refresher = NoRefresh
                          THEN stored(inner, c)
                        ELSE [refresh |-> [r EXCEPT !.response = inner,
                                                    !.followup = i.future],
                              cache |-> c, out |-> NotReady]
        ELSE LET p == levels_future_poll(r.followup.refresher, c, t, inner)
             IN  IF p.out.tag = "Err" THEN failed(inner)
                 ELSE stored(r.response, p.cache)

\* GdcfFuture::poll: the boxed refresher is polled, level_future or
\* levels_future: [future, cache, out]
GdcfFuture_poll(fut, c, t, inner) ==
    IF fut.refresher # NoRefresh
      THEN LET p == IF fut.refresher.request.type = "LevelRequest"
                      THEN level_future_poll(fut.refresher, c, t, inner)
                    ELSE levels_future_poll(fut.refresher, c, t, inner)
           IN  [future |-> [fut EXCEPT !.refresher = p.refresh], cache |-> p.cache,
                out |-> p.out]
    ELSE LET tk == take(fut)
         IN  [future |-> tk.future, cache |-> c,
              out |-> IF tk.item = None THEN Panic ELSE Ready(tk.item.value)]

\* gdcf_one!: Gdcf::level of the older handle: [future, sent]
gdcf_one(request, c, t) ==
    LET entry == lookup(c, Fingerprint(request))
    IN  IF entry.kind # "Cached"
          THEN [future |-> absent(level_future(request)), sent |-> <<request>>]
        ELSE IF is_expired(entry, t)
          THEN [future |-> outdated(entry.value, level_future(request)),
                sent |-> <<request>>]
        ELSE [future |-> up_to_date(entry.value), sent |-> <<>>]

(***************************************************************************)
(* GdcfStream (gdcf/src/lib.rs): the pages of a LevelsRequest, one         *)
(* GdcfFuture at a time.                                                   *)
(***************************************************************************)
\* the last page a stream of the model asks for is MaxPage + 1
MaxPage == 2

\* LevelsRequest::page
page(req, p) == [req EXCEPT !.page = p]

\* StreamableRequest::next as it would be if it gave the request of the
\* same page again
Request_next_same(request) == page(request, request.page)

\* StreamableRequest::next: the request for the page after this one
Request_next(request) == page(request, request.page + 1)

\* poll of the page future of a stream; when the cache fails to store the
\* page the future fails with the cache's error
page_poll(fut, c, t, inner, cache_fails) ==
    IF cache_fails
      THEN [future |-> [fut EXCEPT !.refresher.status = "done",
                                   !.refresher.response = inner],
            cache |-> c, out |-> Err("Cache", "store")]
    ELSE GdcfFuture_poll(fut, c, t, inner)

\* GdcfStream::new with Gdcf::levels as request_maker: [stream, made]
GdcfStream_new(request, c, t) ==
    LET next == Request_next(request)
        current == gdcf_many(request, c, t).future
    IN  [stream |-> [request |-> next, current |-> current], made |-> <<request>>]

\* GdcfStream::poll as it would be if every error of the page future ended
\* the stream
GdcfStream_poll_ending_on_error(self, c, t, inner, cache_fails) ==
    LET p == page_poll(self.current, c, t, inner, cache_fails)
        polled == [self EXCEPT !.current = p.future]
    IN  IF p.out = NotReady
          THEN [stream |-> polled, cache |-> p.cache, out |-> NotReady, made |-> <<>>]
        ELSE IF p.out.tag = "Ready"
          THEN LET next == Request_next(self.request)
                   cur == self.request
               IN  [stream |-> [request |-> next,
                                current |-> gdcf_many(cur, p.cache, t).future],
                    cache |-> p.cache, out |-> Ready(Some(p.out.item)),
                    made |-> <<cur>>]
        ELSE [stream |-> polled, cache |-> p.cache, out |-> Ready(None), made |-> <<>>]

\* GdcfStream::poll as it would be if the next page future were built for
\* the request after the one that is due
GdcfStream_poll_skipping(self, c, t, inner, cache_fails) ==
    LET p == page_poll(self.current, c, t, inner, cache_fails)
        polled == [self EXCEPT !.current = p.future]
    IN  IF p.out = NotReady
          THEN [stream |-> polled, cache |-> p.cache, out |-> NotReady, made |-> <<>>]
        ELSE IF p.out.tag = "Ready"
          THEN LET next == Request_next(self.request)
               IN  [stream |-> [request |-> next,
                                current |-> gdcf_many(next, p.cache, t).future],
                    cache |-> p.cache, out |-> Ready(Some(p.out.item)),
                    made |-> <<next>>]
        ELSE IF p.out.kind = "NoContent" \/ (p.out.kind = "Api" /\ p.out.err = "NoData")
          THEN [stream |-> polled, cache |-> p.cache, out |-> Ready(None), made |-> <<>>]
        ELSE [stream |-> polled, cache |-> p.cache, out |-> p.out, made |-> <<>>]

\* GdcfStream::poll: [stream, cache, out, made], made being the request the
\* request_maker was called with, if it was called
GdcfStream_poll(self, c, t, inner, cache_fails) ==
    LET p == page_poll(self.current, c, t, inner, cache_fails)
        polled == [self EXCEPT !.current = p.future]
    IN  IF p.out = NotReady
          THEN [stream |-> polled, cache |-> p.cache, out |-> NotReady, made |-> <<>>]
        ELSE IF p.out.tag = "Ready"
          THEN LET next == Request_next(self.request)
                   cur == self.request
               IN  [stream |-> [request |-> next,
                                current |-> gdcf_many(cur, p.cache, t).future],
                    cache |-> p.cache, out |-> Ready(Some(p.out.item)),
                    made |-> <<cur>>]
        ELSE IF p.out.kind = "NoContent" \/ (p.out.kind = "Api" /\ p.out.err = "NoData")
          THEN [stream |-> polled, cache |-> p.cache, out |-> Ready(None), made |-> <<>>]
        ELSE [stream |-> polled, cache |-> p.cache, out |-> p.out, made |-> <<>>]

(***************************************************************************)
(* The upgrade relation PartialLevel<Song, User> -> Level<Song, User> and  *)
(* the helpers that rebind the song slot and the user slot                 *)
(* (gdcf/src/upgrade/level.rs).                                            *)
(***************************************************************************)
\* () : what fills a slot while its value is moved
Unit == [kind |-> "Unit"]

\* UpgradeQuery::One and UpgradeQuery::one
UpgradeQuery_One(state, value) == [variant |-> "One", state |-> state, upgrade |-> value]
one(query) == <<query.state, query.upgrade>>

\* Option::unwrap of a Some
unwrap(option) == option.value

\* change_partial_level_song: <<the level with the new song, the old song>>
change_partial_level_song(partial_level, new_song) ==
    <<
       [custom_song |-> new_song, level_id |-> partial_level.level_id,
        name |-> partial_level.name,
        description |-> partial_level.description,
        version |-> partial_level.version, creator |-> partial_level.creator,
        difficulty |-> partial_level.difficulty,
        downloads |-> partial_level.downloads,
        main_song |-> partial_level.main_song,
        gd_version |-> partial_level.gd_version,
        likes |-> partial_level.likes, length |-> partial_level.length,
        stars |-> partial_level.stars, featured |-> partial_level.featured,
        index_31 |-> partial_level.index_31,
        copy_of |-> partial_level.copy_of,
        coin_amount |-> partial_level.coin_amount,
        coins_verified |-> partial_level.coins_verified,
        stars_requested |-> partial_level.stars_requested,
        index_40 |-> partial_level.index_40,
        is_epic |-> partial_level.is_epic,
        index_43 |-> partial_level.index_43,
        object_amount |-> partial_level.object_amount,
        index_46 |-> partial_level.index_46,
        index_47 |-> partial_level.index_47],
       partial_level.custom_song >>

\* change_partial_level_user as it would be if it mixed up two of the
\* fields it copies
change_partial_level_user_swapping(partial_level, new_user) ==
    <<
       [creator |-> new_user, level_id |-> partial_level.level_id,
        name |-> partial_level.name,
        description |-> partial_level.description,
        version |-> partial_level.version,
        custom_song |-> partial_level.custom_song,
        difficulty |-> partial_level.difficulty,
        downloads |-> partial_level.downloads,
        main_song |-> partial_level.main_song,
        gd_version |-> partial_level.gd_version,
        likes |-> partial_level.likes, length |-> partial_level.length,
        stars |-> partial_level.stars, featured |-> partial_level.featured,
        index_31 |-> partial_level.index_31,
        copy_of |-> partial_level.copy_of,
        coin_amount |-> partial_level.coin_amount,
        coins_verified |-> partial_level.coins_verified,
        stars_requested |-> partial_level.stars_requested,
        index_40 |-> partial_level.index_40,
        is_epic |-> partial_level.is_epic,
        index_43 |-> partial_level.index_43,
        object_amount |-> partial_level.object_amount,
        index_46 |-> partial_level.index_47,
        index_47 |-> partial_level.index_46],
       partial_level.creator >>

\* change_partial_level_user: <<the level with the new user, the old user>>
change_partial_level_user(partial_level, new_user) ==
    <<
       [creator |-> new_user, level_id |-> partial_level.level_id,
        name |-> partial_level.name,
        description |-> partial_level.description,
        version |-> partial_level.version,
        custom_song |-> partial_level.custom_song,
        difficulty |-> partial_level.difficulty,
        downloads |-> partial_level.downloads,
        main_song |-> partial_level.main_song,
        gd_version |-> partial_level.gd_version,
        likes |-> partial_level.likes, length |-> partial_level.length,
        stars |-> partial_level.stars, featured |-> partial_level.featured,
        index_31 |-> partial_level.index_31,
        copy_of |-> partial_level.copy_of,
        coin_amount |-> partial_level.coin_amount,
        coins_verified |-> partial_level.coins_verified,
        stars_requested |-> partial_level.stars_requested,
        index_40 |-> partial_level.index_40,
        is_epic |-> partial_level.is_epic,
        index_43 |-> partial_level.index_43,
        object_amount |-> partial_level.object_amount,
        index_46 |-> partial_level.index_46,
        index_47 |-> partial_level.index_47],
       partial_level.creator >>

\* change_level_user: <<the level with the new user, the old user>>
change_level_user(level, new_user) ==
    LET changed == change_partial_level_user(level.base, new_user)
    IN  << [base |-> changed[1], level_data |-> level.level_data,
            password |-> level.password,
            time_since_update |-> level.time_since_update,
            time_since_upload |-> level.time_since_upload,
            index_36 |-> level.index_36],
           changed[2] >>

\* change_level_song: <<the level with the new song, the old song>>
change_level_song(level, new_song) ==
    LET changed == change_partial_level_song(level.base, new_song)
    IN  << [base |-> changed[1], level_data |-> level.level_data,
            password |-> level.password,
            time_since_update |-> level.time_since_update,
            time_since_upload |-> level.time_since_upload,
            index_36 |-> level.index_36],
           changed[2] >>

\* upgrade as it would be if the partial level it keeps for the downgrade
\* were not given the song id of the level
upgrade_losing_song_id(self, query) ==
    LET level0 == unwrap(one(query)[2])
        s1 == change_partial_level_song(self, Unit)
        s2 == change_partial_level_user(s1[1], Unit)
        l1 == change_level_song(level0, s1[2])
        l2 == change_level_user(l1[1], s2[2])
        p1 == change_partial_level_user(s2[1], l2[2])[1]
    IN  <<l2[1], UpgradeQuery_One(None, Some(p1))>>

\* the result of process_query_result: the resolved query or UpgradeFailed
ResolvedQuery(query) == [tag |-> "Ok", query |-> query]
UpgradeFailed == Err("Upgrade", "UpgradeFailed")

\* process_query_result as it would be if an upgrade that cannot be
\* resolved were replaced by a level made of the partial level
process_query_result_defaulting(self, resolved_query) ==
    LET state == one(resolved_query)[1]
        user == one(resolved_query)[2]
    IN  IF state = None /\ user # None
          THEN ResolvedQuery(UpgradeQuery_One(None, Some(unwrap(user))))
        ELSE IF state # None /\ unwrap(state).kind = "Cached"
          THEN ResolvedQuery(UpgradeQuery_One(None, Some(unwrap(state).value)))
        ELSE ResolvedQuery(UpgradeQuery_One(None, Some(Level(self))))

\* process_query_result as it would be if an upgrade resolved before were
\* preferred to the entry the request resolved to
process_query_result_resolved_first(self, resolved_query) ==
    LET state == one(resolved_query)[1]
        user == one(resolved_query)[2]
    IN  IF user # None
          THEN ResolvedQuery(UpgradeQuery_One(None, Some(unwrap(user))))
        ELSE IF state # None /\ unwrap(state).kind = "Cached"
          THEN ResolvedQuery(UpgradeQuery_One(None, Some(unwrap(state).value)))
        ELSE UpgradeFailed

\* Upgradable<Level<Song, User>> for PartialLevel<Song, User>:
\* process_query_result.  The state of the query is the cache entry the
\* request of the upgrade resolved to, if a request was made.
process_query_result(self, resolved_query) ==
    LET state == one(resolved_query)[1]
        user == one(resolved_query)[2]
    IN  IF state = None /\ user # None
          THEN ResolvedQuery(UpgradeQuery_One(None, Some(unwrap(user))))
        ELSE IF state # None /\ unwrap(state).kind = "Cached"
          THEN ResolvedQuery(UpgradeQuery_One(None, Some(unwrap(state).value)))
        ELSE UpgradeFailed

\* Upgradable<Level<Song, User>> for PartialLevel<Song, User>: upgrade.
\* The level of the query takes the song and the user of the partial level;
\* the partial level takes the ids of the level and is kept for downgrade.
upgrade(self, query) ==
    LET level0 == unwrap(one(query)[2])
        s1 == change_partial_level_song(self, Unit)
        s2 == change_partial_level_user(s1[1], Unit)
        l1 == change_level_song(level0, s1[2])
        l2 == change_level_user(l1[1], s2[2])
        p1 == change_partial_level_user(s2[1], l2[2])[1]
        p2 == change_partial_level_song(p1, l1[2])[1]
    IN  <<l2[1], UpgradeQuery_One(None, Some(p2))>>

\* steps 4 and 5 of the upgrade future: the query is processed and the
\* upgrade applied; a failure is what the future returns
UpgradeFuture_finish(self, resolved_query) ==
    LET processed == process_query_result(self, resolved_query)
    IN  IF processed.tag = "Err" THEN processed
        ELSE Ready(upgrade(self, processed.query)[1])

\* Upgradable<Level<Song, User>> for PartialLevel<Song, User>: downgrade
downgrade(upgraded, query) ==
    LET partial0 == unwrap(one(query)[2])
        l1 == change_level_song(upgraded, Unit)
        l2 == change_level_user(l1[1], Unit)
        p1 == change_partial_level_song(partial0, l1[2])
        p2 == change_partial_level_user(p1[1], l2[2])
        l3 == change_level_user(l2[1], p2[2])[1]
        l4 == change_level_song(l3, p1[2])[1]
    IN  <<p2[1], UpgradeQuery_One(None, Some(l4))>>

(***************************************************************************)
(* The song upgrade of a level, Upgradable<Level<Option<NewgroundsSong>,   *)
(* u64>> for Level<Option<u64>, u64> (upgrade/level.rs), and the           *)
(* UpgradeFuture of spec 4.7 that drives it.                               *)
(***************************************************************************)
\* upgrade_request as it would be if no level asked for a request
upgrade_request_none(level) == None

\* the list request upgrade_request builds for a song: the most liked
\* levels that use it
song_request(song_id) ==
    LevelsRequest_request_type(
        filter(LevelsRequest_default,
               SearchFilters_custom_song(SearchFilters_default, song_id)),
        "MostLiked")

\* upgrade_request: the list request that brings the song of the level
upgrade_request(level) ==
    IF level.base.custom_song = None THEN None
    ELSE Some(song_request(level.base.custom_song.value))

\* default_upgrade: a level without custom song is upgraded with no song
default_upgrade == Some(None)

\* lookup_upgrade: the song of the level as the cache has it
lookup_upgrade(level, c) ==
    IF level.base.custom_song = None THEN None
    ELSE LET entry == lookup(c, NewgroundsSongKey(level.base.custom_song.value))
         IN  IF entry.kind = "Cached" THEN Some(entry.value) ELSE None

\* query_upgrade: the upgrade itself when it needs no request or the cache
\* has it and may be used, else the request to issue
query_upgrade(level, c, ignore_cached) ==
    LET request == upgrade_request(level)
        cached == lookup_upgrade(level, c)
    IN  IF request = None
          THEN [variant |-> "Resolved", upgrade |-> unwrap(default_upgrade),
                request |-> NoRequest]
        ELSE IF ~ignore_cached /\ cached # None
          THEN [variant |-> "Resolved", upgrade |-> cached, request |-> NoRequest]
        ELSE [variant |-> "Request", upgrade |-> None,
              request |-> set_force_refresh(unwrap(request), ignore_cached)]

\* UpgradeFuture::new: the source future is awaited first
UpgradeFuture_new(forced, source) ==
    [state |-> "base", forces_refresh |-> forced, source |-> source,
     base |-> None, sub |-> NoFuture]

\* UpgradeFuture::poll: [future, cache, out, sent].  The base entry is
\* awaited, then the upgrade is queried; a request it needs goes through
\* Gdcf::process and is awaited, then the upgrade is looked up and applied.
UpgradeFuture_poll(self, c, t, inner) ==
    LET done(o, cc, sent) ==
            [future |-> [self EXCEPT !.state = "done"], cache |-> cc, out |-> o,
             sent |-> sent]
        upgraded(entry, u) ==
            Ready(Cached(change_level_song(entry.value, u)[1], entry.stored_at))
        \* steps 4 and 5, after the request of the upgrade has completed
        finish(entry, cc, sent) ==
            LET u == lookup_upgrade(entry.value, cc)
            IN  IF u = None THEN done(Err("Upgrade", "UpgradeFailed"), cc, sent)
                ELSE done(upgraded(entry, u), cc, sent)
        completed(entry, o, cc, sent) ==
            IF o.tag # "Ready" THEN done(o, cc, sent)
            ELSE IF o.item.kind # "Cached"
              THEN done(Err("Upgrade", "UpgradeFailed"), cc, sent)
            ELSE finish(entry, cc, sent)
    IN  IF self.state = "base"
          THEN LET p == ProcessRequestFuture_poll(self.source, c, t, inner)
               IN  IF p.out = NotReady
                     THEN [future |-> [self EXCEPT !.source = p.future],
                           cache |-> p.cache, out |-> NotReady, sent |-> <<>>]
                   ELSE IF p.out.tag # "Ready" \/ p.out.item.kind # "Cached"
                     THEN done(p.out, p.cache, <<>>)
                   ELSE LET entry == p.out.item
                            q == query_upgrade(entry.value, p.cache, self.forces_refresh)
                            n == ProcessRequestFuture_new(q.request, p.cache, t)
                            first == ProcessRequestFuture_poll(n.future, p.cache, t, NotReady)
                        IN  IF q.variant = "Resolved"
                              THEN done(upgraded(entry, q.upgrade), p.cache, <<>>)
                            ELSE IF first.out = NotReady
                              THEN [future |-> [self EXCEPT !.state = "sub",
                                                            !.source = p.future,
                                                            !.base = Some(entry),
                                                            !.sub = n.future],
                                    cache |-> p.cache, out |-> NotReady, sent |-> n.sent]
                            ELSE completed(entry, first.out, first.cache, n.sent)
        ELSE IF self.state = "sub"
          THEN LET p == ProcessRequestFuture_poll(self.sub, c, t, inner)
               IN  IF p.out = NotReady
                     THEN [future |-> [self EXCEPT !.sub = p.future],
                           cache |-> p.cache, out |-> NotReady, sent |-> <<>>]
                   ELSE [completed(unwrap(self.base), p.out, p.cache, <<>>)
                             EXCEPT !.future.sub = p.future]
        ELSE [future |-> self, cache |-> c, out |-> Panic, sent |-> <<>>]

(***************************************************************************)
(* The song upgrade of the partial levels of a list,                       *)
(* Upgradable<PartialLevel<Option<NewgroundsSong>, u64>> for               *)
(* PartialLevel<Option<u64>, u64>, driven element by element by the        *)
(* UpgradeFuture that upgrade_all builds.                                  *)
(***************************************************************************)
\* upgrade_request of a partial level
partial_level_upgrade_request(partial_level) ==
    IF partial_level.custom_song = None THEN None
    ELSE Some(song_request(partial_level.custom_song.value))

\* lookup_upgrade of a partial level
partial_level_lookup_upgrade(partial_level, c) ==
    IF partial_level.custom_song = None THEN None
    ELSE LET entry == lookup(c, NewgroundsSongKey(partial_level.custom_song.value))
         IN  IF entry.kind = "Cached" THEN Some(entry.value) ELSE None

\* query_upgrade as it would be if the songs the cache holds were never used
partial_level_query_upgrade_uncached(partial_level, c, ignore_cached) ==
    LET request == partial_level_upgrade_request(partial_level)
    IN  IF request = None
          THEN [variant |-> "Resolved", upgrade |-> unwrap(default_upgrade),
                request |-> NoRequest]
        ELSE [variant |-> "Request", upgrade |-> None,
              request |-> set_force_refresh(unwrap(request), ignore_cached)]

\* query_upgrade of a partial level
partial_level_query_upgrade(partial_level, c, ignore_cached) ==
    LET request == partial_level_upgrade_request(partial_level)
        cached == partial_level_lookup_upgrade(partial_level, c)
    IN  IF request = None
          THEN [variant |-> "Resolved", upgrade |-> unwrap(default_upgrade),
                request |-> NoRequest]
        ELSE IF ~ignore_cached /\ cached # None
          THEN [variant |-> "Resolved", upgrade |-> cached, request |-> NoRequest]
        ELSE [variant |-> "Request", upgrade |-> None,
              request |-> set_force_refresh(unwrap(request), ignore_cached)]

\* UpgradeFuture::new for a list: need is the set of elements whose upgrade
\* waits for a request, subs their futures
UpgradeFuture_new_all(forced, source) ==
    [state |-> "base", forces_refresh |-> forced, source |-> source,
     base |-> None, need |-> {}, subs |-> <<>>]

\* upgrade as it would be if it did not hand the flag of the future on
ProcessRequestFuture_upgrade_unforced(fut) ==
    IF (IF fut.state.variant = "UpToDate" THEN fut.state.request
        ELSE fut.state.refresh.request).type = "LevelsRequest"
      THEN UpgradeFuture_new_all(FALSE, fut)
    ELSE UpgradeFuture_new(FALSE, fut)

\* ProcessRequestFuture::upgrade: UpgradeFuture::new(self.gdcf.clone(),
\* self.forces_refresh, self); the upgrade of Req::Result is the one of a
\* level, or the one of the elements of a list
ProcessRequestFuture_upgrade(fut) ==
    IF (IF fut.state.variant = "UpToDate" THEN fut.state.request
        ELSE fut.state.refresh.request).type = "LevelsRequest"
      THEN UpgradeFuture_new_all(fut.forces_refresh, fut)
    ELSE UpgradeFuture_new(fut.forces_refresh, fut)

\* upgrade_all as it would be if it built its upgrade future from a future
\* that does not force a refresh
ProcessRequestFuture_upgrade_all_unforced(fut) ==
    ProcessRequestFuture_upgrade([fut EXCEPT !.forces_refresh = FALSE])

\* ProcessRequestFuture::upgrade_all: self.upgrade()
ProcessRequestFuture_upgrade_all(fut) == ProcessRequestFuture_upgrade(fut)

\* UpgradeFuture::poll for a list: [future, cache, out, sent].  Every
\* element is queried once the list is known; the requests the elements
\* need are awaited one after the other, then every element is upgraded; one
\* element that cannot be upgraded fails the whole.
UpgradeFuture_poll_all(self, c, t, inner) ==
    LET done(o, cc, sent) ==
            [future |-> [self EXCEPT !.state = "done"], cache |-> cc, out |-> o,
             sent |-> sent]
        pending(fut, cc, sent) ==
            [future |-> fut, cache |-> cc, out |-> NotReady, sent |-> sent]
    IN  IF self.state = "base"
          THEN LET p == ProcessRequestFuture_poll(self.source, c, t, inner)
               IN  IF p.out = NotReady
                     THEN pending([self EXCEPT !.source = p.future], p.cache, <<>>)
                   ELSE IF p.out.tag # "Ready" \/ p.out.item.kind # "Cached"
                     THEN done(p.out, p.cache, <<>>)
                   ELSE LET entry == p.out.item
                            levels == entry.value
                            q == [i \in DOMAIN levels |->
                                    partial_level_query_upgrade(levels[i], p.cache,
                                                                self.forces_refresh)]
                            need == {i \in DOMAIN levels : q[i].variant = "Request"}
                            news == [i \in DOMAIN levels |->
                                       IF i \in need
                                         THEN ProcessRequestFuture_new(q[i].request, p.cache, t)
                                       ELSE [future |-> NoFuture, sent |-> <<>>]]
                            sending == SelectSeq(news, LAMBDA n : n.sent # <<>>)
                        IN  IF need = {}
                              THEN [done(Ready(Cached(
                                         [i \in DOMAIN levels |->
                                            change_partial_level_song(levels[i], q[i].upgrade)[1]],
                                         entry.stored_at)), p.cache, <<>>)
                                    EXCEPT !.future.base = Some(entry)]
                            ELSE pending([self EXCEPT !.state = "sub",
                                                      !.source = p.future,
                                                      !.base = Some(entry),
                                                      !.need = need,
                                                      !.subs = [i \in DOMAIN levels |-> news[i].future]],
                                         p.cache,
                                         [k \in DOMAIN sending |-> sending[k].sent[1]])
        ELSE IF self.state = "sub"
          THEN LET i == CHOOSE x \in self.need : \A y \in self.need : x <= y
                   p == ProcessRequestFuture_poll(self.subs[i], c, t, inner)
                   entry == unwrap(self.base)
                   levels == entry.value
                   u == [j \in DOMAIN levels |-> partial_level_lookup_upgrade(levels[j], p.cache)]
                   after == [self EXCEPT !.subs[i] = p.future, !.need = @ \ {i}]
               IN  IF p.out = NotReady
                     THEN pending([self EXCEPT !.subs[i] = p.future], p.cache, <<>>)
                   ELSE IF p.out.tag # "Ready"
                     THEN [done(p.out, p.cache, <<>>) EXCEPT !.future.subs[i] = p.future]
                   ELSE IF p.out.item.kind # "Cached"
                     THEN [done(Err("Upgrade", "UpgradeFailed"), p.cache, <<>>)
                              EXCEPT !.future.subs[i] = p.future]
                   ELSE IF after.need # {}
                     THEN pending(after, p.cache, <<>>)
                   ELSE IF \E j \in DOMAIN levels : levels[j].custom_song # None /\ u[j] = None
                     THEN [done(Err("Upgrade", "UpgradeFailed"), p.cache, <<>>)
                              EXCEPT !.future.subs[i] = p.future]
                   ELSE [done(Ready(Cached(
                              [j \in DOMAIN levels |->
                                 change_partial_level_song(levels[j], u[j])[1]],
                              entry.stored_at)), p.cache, <<>>)
                            EXCEPT !.future.subs[i] = p.future]
        ELSE [future |-> self, cache |-> c, out |-> Panic, sent |-> <<>>]

(***************************************************************************)
(* State.                                                                  *)
(***************************************************************************)
VARIABLES
    requests,   \* the requests the callers of this run issue
    now,        \* the clock
    cache,      \* the cache behind the handle: key -> entry
    futs,       \* the futures alive, by slot
    out,        \* what the last poll of each future returned
    calls,      \* requests the API client received for the request of each slot
    call,       \* the last application of a pure function: arguments and result
    stream,     \* the GdcfStream under observation
    upgrade_future,  \* the UpgradeFuture under observation
    locks       \* the two mutexes of the handle: the cache's and the client's

vars == <<requests, now, cache, futs, out, calls, call, stream, upgrade_future, locks>>

\* no pure function applied, no stream, no upgrade future
NoCall == [fn |-> "none"]
NoStream == [alive |-> FALSE]
NoUpgrade == [stage |-> "none"]

Slots == DOMAIN futs

InitWith(n) ==
    /\ requests \in {SingularRequests, ListRequests}
    /\ now = 0
    /\ cache = [k \in Keys(requests) |-> Missing]
    /\ futs = [f \in 1 .. n |-> NoFuture]
    /\ out = [f \in 1 .. n |-> NoOut]
    /\ calls = [f \in 1 .. n |-> 0]
    /\ call = NoCall
    /\ stream = NoStream
    /\ upgrade_future = NoUpgrade
    /\ locks = LocksFree

\* one caller after the other: NumFutures futures alive at a time
Init == InitWith(NumFutures)

\* The operations of the handle lock the cache and the client: on a mutex
\* that is blocked they wait forever, on a poisoned one lock! fails; they
\* are taken while both mutexes are free.

\* a caller builds a process-request future (handle.level / handle.levels)
New(f, req) ==
    /\ locks = LocksFree
    /\ futs[f] = NoFuture
    /\ LET n == ProcessRequestFuture_new(req, cache, now)
       IN  /\ futs' = [futs EXCEPT ![f] = n.future]
           /\ calls' = [calls EXCEPT ![f] = Len(n.sent)]
    /\ out' = [out EXCEPT ![f] = NoOut]
    /\ UNCHANGED <<requests, now, cache, call, stream, upgrade_future, locks>>

\* a caller of the older handle builds a GdcfFuture (Gdcf::level)
GdcfLevel(f, req) ==
    /\ locks = LocksFree
    /\ futs[f] = NoFuture
    /\ req.type = "LevelRequest" /\ ~req.force_refresh
    /\ LET n == gdcf_one(req, cache, now)
       IN  /\ futs' = [futs EXCEPT ![f] = n.future]
           /\ calls' = [calls EXCEPT ![f] = Len(n.sent)]
    /\ out' = [out EXCEPT ![f] = NoOut]
    /\ UNCHANGED <<requests, now, cache, call, stream, upgrade_future, locks>>

\* the refresh future a slot holds, if any
RefreshOf(fut) ==
    IF fut.impl = "process" THEN fut.state.refresh
    ELSE IF fut.impl = "gdcf" THEN fut.refresher
    ELSE NoRefresh

\* what the client's future of a slot can give when it is polled: its
\* answer to the request the future is waiting for, the follow-up of the
\* integrity pass when there is one
InnerOf(fut) ==
    IF RefreshOf(fut).status # "inflight" THEN {NotReady}
    ELSE IF fut.impl = "gdcf" /\ fut.refresher.followup # NoFuture
      THEN ClientPoll(fut.refresher.followup.refresher.request)
    ELSE ClientPoll(RefreshOf(fut).request)

\* a future may be polled until it has resolved
Resolved(o) == o.tag \in {"Ready", "Err", "panic", "blocked"}

\* the executor polls a process-request future; an UpToDate future can be
\* polled again after it has given its entry
Poll(f) ==
    /\ locks = LocksFree
    /\ futs[f].impl = "process"
    /\ ~Resolved(out[f]) \/ futs[f].state.variant = "UpToDate"
    /\ \E inner \in InnerOf(futs[f]) :
         LET p == ProcessRequestFuture_poll(futs[f], cache, now, inner)
         IN  /\ futs' = [futs EXCEPT ![f] = p.future]
             /\ cache' = p.cache
             /\ out' = [out EXCEPT ![f] = p.out]
    /\ UNCHANGED <<requests, now, calls, call, stream, upgrade_future, locks>>

\* the executor polls a GdcfFuture; one without refresher can be polled
\* again after it has given its object.  A poll that locks the cache while
\* it holds its guard waits forever and leaves the mutex blocked, or panics
\* and leaves it poisoned.
GdcfPoll(f) ==
    /\ locks = LocksFree
    /\ futs[f].impl = "gdcf"
    /\ ~Resolved(out[f]) \/ futs[f].refresher = NoRefresh
    /\ \E inner \in InnerOf(futs[f]), outcome \in {"blocked", "poisoned"} :
         LET p == GdcfFuture_poll(futs[f], cache, now, inner)
         IN  /\ futs' = [futs EXCEPT ![f] = p.future]
             /\ cache' = p.cache
             /\ IF p.out = Blocked
                  THEN /\ out' = [out EXCEPT ![f] = IF outcome = "poisoned" THEN Panic
                                                    ELSE Blocked]
                       /\ locks' = [locks EXCEPT !.cache = outcome]
                  ELSE /\ out' = [out EXCEPT ![f] = p.out]
                       /\ locks' = locks
    /\ UNCHANGED <<requests, now, calls, call, stream, upgrade_future>>

\* the caller takes the cached object out of a GdcfFuture
GdcfTake(f) ==
    /\ futs[f].impl = "gdcf"
    /\ out[f] # Blocked
    /\ futs' = [futs EXCEPT ![f] = take(@).future]
    /\ UNCHANGED <<requests, now, cache, out, calls, call, stream, upgrade_future, locks>>

\* the caller drops a future, at any point of its life between two polls (a
\* future inside a poll that does not return is borrowed by that poll)
Drop(f) ==
    /\ futs[f] # NoFuture
    /\ out[f] # Blocked
    /\ futs' = [futs EXCEPT ![f] = NoFuture]
    /\ out' = [out EXCEPT ![f] = NoOut]
    /\ calls' = [calls EXCEPT ![f] = 0]
    /\ UNCHANGED <<requests, now, cache, call, stream, upgrade_future, locks>>

\* time passes
Tick ==
    /\ now < MaxTime
    /\ now' = now + 1
    /\ UNCHANGED <<requests, cache, futs, out, calls, call, stream, upgrade_future, locks>>

Next ==
    \/ \E f \in Slots, req \in requests : New(f, req)
    \/ \E f \in Slots, req \in requests : GdcfLevel(f, req)
    \/ \E f \in Slots : Poll(f)
    \/ \E f \in Slots : GdcfPoll(f)
    \/ \E f \in Slots : GdcfTake(f)
    \/ \E f \in Slots : Drop(f)
    \/ Tick

Spec == Init /\ [][Next]_vars

\* one more caller at the same time
SpecConcurrent == InitWith(NumFutures + 1) /\ [][Next]_vars

(***************************************************************************)
(* A level is fetched and upgraded with its newgrounds song               *)
(* (handle.level(req).upgrade()), one upgrade future at a time; the cache  *)
(* may already hold the level.                                             *)
(***************************************************************************)
InitUpgrade ==
    /\ requests = SingularRequests
    /\ now = 0
    /\ \E level \in {Missing, Cached(TheLevel, 0)} :
         cache = [k \in Keys(SingularRequests \cup ListRequests)
                            \cup {Fingerprint(song_request(TheSongId))} |->
                     IF k = Fingerprint(LevelRequest_new(TheLevelId)) THEN level
                     ELSE Missing]
    /\ futs = <<>> /\ out = <<>> /\ calls = <<>>
    /\ call = NoCall
    /\ stream = NoStream
    /\ upgrade_future = NoUpgrade
    /\ locks = LocksFree

\* handle.level(req).upgrade(): the entries of the level and of its song at
\* this moment are noted, and the requests handed to the API client are
\* logged in their order
UpgradeLevel(req) ==
    /\ upgrade_future = NoUpgrade
    /\ LET n == ProcessRequestFuture_new(req, cache, now)
       IN  upgrade_future' =
               [stage |-> "alive", all |-> FALSE,
                future |-> ProcessRequestFuture_upgrade(n.future),
                out |-> NoOut, sent |-> n.sent,
                start |-> [level |-> lookup(cache, Fingerprint(req)),
                           song |-> lookup(cache, NewgroundsSongKey(TheSongId)),
                           forced |-> forces_refresh(req),
                           now |-> now]]
    /\ UNCHANGED <<requests, now, cache, futs, out, calls, call, stream, locks>>

\* handle.levels(req).upgrade_all(), noted and logged in the same way
UpgradeLevels(req) ==
    /\ upgrade_future = NoUpgrade
    /\ LET n == ProcessRequestFuture_new(req, cache, now)
       IN  upgrade_future' =
               [stage |-> "alive", all |-> TRUE,
                future |-> ProcessRequestFuture_upgrade_all(n.future),
                out |-> NoOut, sent |-> n.sent,
                start |-> [level |-> lookup(cache, Fingerprint(req)),
                           song |-> lookup(cache, NewgroundsSongKey(TheSongId)),
                           forced |-> forces_refresh(req),
                           now |-> now]]
    /\ UNCHANGED <<requests, now, cache, futs, out, calls, call, stream, locks>>

\* the upgrade future is polled, until it has resolved; the client gives
\* its answer to the future the upgrade future is waiting for
UpgradePoll ==
    /\ upgrade_future.stage = "alive"
    /\ ~Resolved(upgrade_future.out)
    /\ \E inner \in InnerOf(
            LET up == upgrade_future
            IN  IF up.future.state = "base" THEN up.future.source
                ELSE IF up.future.state # "sub" THEN NoFuture
                ELSE IF up.all
                  THEN up.future.subs[CHOOSE x \in up.future.need :
                                          \A y \in up.future.need : x <= y]
                ELSE up.future.sub) :
         LET p == IF upgrade_future.all
                    THEN UpgradeFuture_poll_all(upgrade_future.future, cache, now, inner)
                  ELSE UpgradeFuture_poll(upgrade_future.future, cache, now, inner)
         IN  /\ upgrade_future' = [upgrade_future EXCEPT !.future = p.future,
                                                         !.out = p.out,
                                                         !.sent = @ \o p.sent]
             /\ cache' = p.cache
    /\ UNCHANGED <<requests, now, futs, out, calls, call, stream, locks>>

\* the upgrade future is dropped, at any point of its life
UpgradeDrop ==
    /\ upgrade_future.stage = "alive"
    /\ upgrade_future' = NoUpgrade
    /\ UNCHANGED <<requests, now, cache, futs, out, calls, call, stream, locks>>

NextUpgrade ==
    \/ \E req \in requests : UpgradeLevel(req)
    \/ \E req \in ListRequests : UpgradeLevels(req)
    \/ UpgradePoll
    \/ UpgradeDrop
    \/ Tick

SpecUpgrade == InitUpgrade /\ [][NextUpgrade]_vars

(***************************************************************************)
(* The upgrade relation applied to values: the partial levels and levels   *)
(* it is given, for each choice of the types of the two slots.             *)
(***************************************************************************)
handle == <<requests, now, cache, futs, out, calls>>

\* no handle in use
HandleIdle ==
    /\ requests = {} /\ now = 0 /\ cache = <<>>
    /\ futs = <<>> /\ out = <<>> /\ calls = <<>>

\* the values of a song slot: Option<u64> or Option<NewgroundsSong>
SongSlot(ty) ==
    IF ty = "id" THEN {None, Some(TheSongId)}
    ELSE {None, Some(NewgroundsSong(TheSongId))}

\* the values of a user slot: u64 or Option<Creator>
UserSlot(ty) ==
    IF ty = "id" THEN {TheCreatorId, TheCreatorId + 1}
    ELSE {None, Some(Creator(TheCreatorId))}

SlotTypes == {"id", "object"}

\* PartialLevel<Song, User> for the given types of Song and User
PartialLevels(song_ty, user_ty) ==
    {[PartialLevel(id, s, c) EXCEPT !.name = n] :
        id \in {TheLevelId, TheLevelId + 1}, s \in SongSlot(song_ty),
        c \in UserSlot(user_ty), n \in {"name", "another name"}}

\* Level<Song, User> for the given types of Song and User
Levels(song_ty, user_ty) ==
    {[Level(base) EXCEPT !.password = p] :
        base \in {b \in PartialLevels(song_ty, user_ty) : b.name = "name"},
        p \in {"password", "another password"}}

\* upgrade(a, u) for a partial level a and a resolved Level<Option<u64>, u64>
Upgrade(song_ty, user_ty) ==
    /\ call = NoCall
    /\ \E a \in PartialLevels(song_ty, user_ty), u \in Levels("id", "id") :
         LET query == UpgradeQuery_One(None, Some(u))
         IN  call' = [fn |-> "upgrade", song_ty |-> song_ty, user_ty |-> user_ty,
                      self |-> a, query |-> query, result |-> upgrade(a, query)]
    /\ UNCHANGED <<handle, stream, upgrade_future, locks>>

\* downgrade applied to what upgrade returned
Downgrade ==
    /\ call.fn = "upgrade"
    /\ call' = [call EXCEPT !.fn = "downgrade",
                            !.result = downgrade(call.result[1], call.result[2])]
    /\ UNCHANGED <<handle, stream, upgrade_future, locks>>

\* what a song slot (a user slot) of the given type can be rebound to
NewSongs(ty) == IF ty = "unit" THEN {Unit} ELSE SongSlot(ty)
NewUsers(ty) == IF ty = "unit" THEN {Unit} ELSE UserSlot(ty)

\* one of the four helpers applied to an object and a new slot value
ChangePartialLevelSong(song_ty, user_ty, new_ty) ==
    /\ call = NoCall
    /\ \E object \in PartialLevels(song_ty, user_ty), new \in NewSongs(new_ty) :
         call' = [fn |-> "change_partial_level_song", object |-> object, new |-> new,
                  result |-> change_partial_level_song(object, new)]
    /\ UNCHANGED <<handle, stream, upgrade_future, locks>>

ChangePartialLevelUser(song_ty, user_ty, new_ty) ==
    /\ call = NoCall
    /\ \E object \in PartialLevels(song_ty, user_ty), new \in NewUsers(new_ty) :
         call' = [fn |-> "change_partial_level_user", object |-> object, new |-> new,
                  result |-> change_partial_level_user(object, new)]
    /\ UNCHANGED <<handle, stream, upgrade_future, locks>>

ChangeLevelSong(song_ty, user_ty, new_ty) ==
    /\ call = NoCall
    /\ \E object \in Levels(song_ty, user_ty), new \in NewSongs(new_ty) :
         call' = [fn |-> "change_level_song", object |-> object, new |-> new,
                  result |-> change_level_song(object, new)]
    /\ UNCHANGED <<handle, stream, upgrade_future, locks>>

ChangeLevelUser(song_ty, user_ty, new_ty) ==
    /\ call = NoCall
    /\ \E object \in Levels(song_ty, user_ty), new \in NewUsers(new_ty) :
         call' = [fn |-> "change_level_user", object |-> object, new |-> new,
                  result |-> change_level_user(object, new)]
    /\ UNCHANGED <<handle, stream, upgrade_future, locks>>

\* the upgrade future processes the resolved query of a partial level; the
\* request of the upgrade can have resolved to: no request made, or the
\* cache entry of the level
ProcessQueryResult ==
    /\ call = NoCall
    /\ \E self \in {a \in PartialLevels("id", "id") : a.name = "name"},
          state \in {None, Some(Missing), Some(MarkedAbsent(0))}
                       \cup {Some(Cached(u, 0)) :
                               u \in {l \in Levels("id", "id") : l.password = "password"}},
          user \in {None} \cup {Some(u) : u \in {l \in Levels("id", "id") : l.password = "password"}} :
         LET query == UpgradeQuery_One(state, user)
         IN  call' = [fn |-> "process_query_result", self |-> self, query |-> query,
                      result |-> process_query_result(self, query),
                      out |-> UpgradeFuture_finish(self, query)]
    /\ UNCHANGED <<handle, stream, upgrade_future, locks>>

\* the caller is done with the result
Return ==
    /\ call # NoCall
    /\ call' = NoCall
    /\ UNCHANGED <<handle, stream, upgrade_future, locks>>

InitUpgradable ==
    /\ HandleIdle
    /\ call = NoCall
    /\ stream = NoStream
    /\ upgrade_future = NoUpgrade
    /\ locks = LocksFree

NextUpgradable ==
    \/ \E song_ty \in SlotTypes, user_ty \in SlotTypes : Upgrade(song_ty, user_ty)
    \/ Downgrade
    \/ \E song_ty \in SlotTypes, user_ty \in SlotTypes, new_ty \in SlotTypes \cup {"unit"} :
         ChangePartialLevelSong(song_ty, user_ty, new_ty)
    \/ \E song_ty \in SlotTypes, user_ty \in SlotTypes, new_ty \in SlotTypes \cup {"unit"} :
         ChangePartialLevelUser(song_ty, user_ty, new_ty)
    \/ \E song_ty \in SlotTypes, user_ty \in SlotTypes, new_ty \in SlotTypes \cup {"unit"} :
         ChangeLevelSong(song_ty, user_ty, new_ty)
    \/ \E song_ty \in SlotTypes, user_ty \in SlotTypes, new_ty \in SlotTypes \cup {"unit"} :
         ChangeLevelUser(song_ty, user_ty, new_ty)
    \/ ProcessQueryResult
    \/ Return

SpecUpgradable == InitUpgradable /\ [][NextUpgradable]_vars

(***************************************************************************)
(* A stream of the pages of a LevelsRequest over a handle whose cache is   *)
(* empty or holds page 0 from an earlier run.                              *)
(***************************************************************************)
\* the keys of the pages a stream of the model asks for, and of their songs
\* and creators
StreamKeys ==
    {Fingerprint(page(LevelsRequest_default, p)) : p \in 0 .. MaxPage + 1}
        \cup {CreatorKey(TheCreatorId), NewgroundsSongKey(TheSongId)}

InitStream ==
    /\ requests = {LevelsRequest_default}
    /\ now = 0
    /\ \E first \in {Missing, Cached(ThePartialLevels, 0)} :
         cache = [k \in StreamKeys |->
                     IF k = Fingerprint(LevelsRequest_default) THEN first ELSE Missing]
    /\ futs = <<>> /\ out = <<>> /\ calls = <<>>
    /\ call = NoCall
    /\ stream = NoStream
    /\ upgrade_future = NoUpgrade
    /\ locks = LocksFree

\* Gdcf::levels_stream
LevelsStream(req) ==
    /\ stream = NoStream
    /\ LET n == GdcfStream_new(req, cache, now)
       IN  stream' = [alive |-> TRUE, request |-> n.stream.request,
                      current |-> n.stream.current, out |-> NoOut,
                      yielded |-> <<>>, made |-> n.made,
                      inner |-> NotReady, cache_fails |-> FALSE]
    /\ UNCHANGED <<handle, call, upgrade_future, locks>>

\* what the client gives to the page future of the stream: one of its
\* answers to a list request, or a response without any level
PageInner(fut) ==
    IF RefreshOf(fut).status = "inflight"
      THEN InnerOf(fut) \cup {ListOk(<<>>)}
    ELSE {NotReady}

\* the stream is polled, until it has ended or failed; the cache can fail
\* when a page is to be stored
StreamPoll ==
    /\ stream.alive
    /\ stream.out \in {NoOut, NotReady} \/ (stream.out.tag = "Ready" /\ stream.out.item # None)
    /\ stream.request.page <= MaxPage + 1
    /\ \E inner \in PageInner(stream.current), cache_fails \in BOOLEAN :
         /\ cache_fails => (inner # NotReady /\ inner.tag = "Ok")
         /\ LET p == GdcfStream_poll([request |-> stream.request,
                                      current |-> stream.current],
                                     cache, now, inner, cache_fails)
            IN  /\ stream' = [stream EXCEPT
                                 !.request = p.stream.request,
                                 !.current = p.stream.current,
                                 !.out = p.out,
                                 !.yielded = IF p.out.tag = "Ready" /\ p.out.item # None
                                               THEN Append(@, p.out.item.value)
                                             ELSE @,
                                 !.made = @ \o p.made,
                                 !.inner = inner,
                                 !.cache_fails = cache_fails]
                /\ cache' = p.cache
    /\ UNCHANGED <<requests, now, futs, out, calls, call, upgrade_future, locks>>

\* the stream is dropped
StreamDrop ==
    /\ stream.alive
    /\ stream' = NoStream
    /\ UNCHANGED <<handle, call, upgrade_future, locks>>

NextStream ==
    \/ \E req \in requests : LevelsStream(req)
    \/ StreamPoll
    \/ StreamDrop
    \/ Tick

SpecStream == InitStream /\ [][NextStream]_vars

(***************************************************************************)
(* The Hash impls applied to pairs of requests that differ in one field.   *)
(***************************************************************************)
RequestFields(type) ==
    IF type = "LevelRequest" THEN {"base", "level_id", "inc", "extra"}
    ELSE {"base", "request_type", "search_string", "lengths", "ratings",
          "demon_rating", "page", "total", "search_filters"}

\* the values the model gives to a field of a request
FieldValues(type, field) ==
    CASE field = "base" -> {BaseRequest, [BaseRequest EXCEPT !.game_version = "2.0"]}
      [] field = "level_id" -> {TheLevelId, TheLevelId + 1}
      [] field \in {"inc", "extra"} -> BOOLEAN
      [] field = "request_type" -> {"Featured", "Search"}
      [] field = "search_string" -> {"", ToString(TheLevelId)}
      [] field = "lengths" -> {<<>>, <<"Short">>}
      [] field = "ratings" -> {<<>>, <<"Easy">>}
      [] field = "demon_rating" -> {None, Some("Hard")}
      [] field \in {"page", "total"} -> {0, 1}
      [] field = "search_filters" ->
            {SearchFilters_default,
             SearchFilters_custom_song(SearchFilters_default, TheSongId)}

\* the requests of a type: every field takes each of its values
RECURSIVE WithFields(_, _, _)
WithFields(type, reqs, fields) ==
    IF fields = {} THEN reqs
    ELSE LET field == CHOOSE x \in fields : TRUE
         IN  WithFields(type,
                        {[r EXCEPT ![field] = v] : r \in reqs, v \in FieldValues(type, field)},
                        fields \ {field})

Requests(type) ==
    WithFields(type,
               {IF type = "LevelRequest" THEN LevelRequest_new(TheLevelId)
                ELSE LevelsRequest_default},
               RequestFields(type))

InitHash ==
    /\ HandleIdle
    /\ call = NoCall
    /\ stream = NoStream
    /\ upgrade_future = NoUpgrade
    /\ locks = LocksFree

\* two requests that differ in one field are hashed
NextHash ==
    \/ /\ call = NoCall
       /\ \E type \in {"LevelRequest", "LevelsRequest"} : \E field \in RequestFields(type) :
          \E a \in Requests(type) : \E v \in FieldValues(type, field) \ {a[field]} :
            LET b == [a EXCEPT ![field] = v]
            IN  call' = [fn |-> "hash", field |-> field, a |-> a, b |-> b,
                         result |-> <<Fingerprint(a).hash, Fingerprint(b).hash>>]
       /\ UNCHANGED <<handle, stream, upgrade_future, locks>>
    \/ Return

SpecHash == InitHash /\ [][NextHash]_vars

(***************************************************************************)
(* Process-request futures that their callers also peek into.              *)
(***************************************************************************)
\* a caller peeks into its future; a closure that fails leaves no future
Peek(f, closure) ==
    /\ futs[f].impl = "process"
    /\ LET r == ProcessRequestFuture_peek(futs[f], closure)
       IN  IF r.tag = "Ok"
             THEN /\ futs' = [futs EXCEPT ![f] = r.future]
                  /\ UNCHANGED <<out, calls>>
           ELSE /\ futs' = [futs EXCEPT ![f] = NoFuture]
                /\ out' = [out EXCEPT ![f] = NoOut]
                /\ calls' = [calls EXCEPT ![f] = 0]
    /\ UNCHANGED <<requests, now, cache, call, stream, upgrade_future, locks>>

NextPeeking ==
    \/ \E f \in Slots, req \in requests : New(f, req)
    \/ \E f \in Slots : Poll(f)
    \/ \E f \in Slots, closure \in Closures \ {"later"} : Peek(f, closure)
    \/ \E f \in Slots : Drop(f)
    \/ Tick

SpecPeeking == Init /\ [][NextPeeking]_vars

(***************************************************************************)
(* peek applied to process-request futures in each of their states, and    *)
(* again to the future it returns.                                         *)
(***************************************************************************)
\* peek(f) on a future: one of the futures ProcessRequestFuture::new builds
\* for the requests of the run over a cache that holds nothing, the object
\* or a mark of absence for the request, or such a future after one poll
PeekCall ==
    /\ call = NoCall
    /\ LET entries(req) ==
               {Missing, MarkedAbsent(0),
                Cached(IF req.type = "LevelRequest" THEN TheLevel ELSE ThePartialLevels, 0)}
           built == UNION {{ProcessRequestFuture_new(req, [k \in {Fingerprint(req)} |-> e],
                                                     t).future :
                               e \in entries(req), t \in 0 .. MaxTime} : req \in requests}
           polled == {ProcessRequestFuture_poll(fut, <<>>, 0, NotReady).future :
                         fut \in {b \in built : b.state.variant = "UpToDate"}}
       IN  \E fut \in built \cup polled, f \in Closures :
         call' = [fn |-> "peek", self |-> fut, f |-> f, depth |-> 1,
                  result |-> ProcessRequestFuture_peek(fut, f)]
    /\ UNCHANGED <<handle, stream, upgrade_future, locks>>

\* peek(f) on the future a peek returned
PeekAgain ==
    /\ call.fn = "peek" /\ call.depth = 1 /\ call.result.tag = "Ok"
    /\ \E f \in Closures :
         call' = [fn |-> "peek", self |-> call.result.future, f |-> f, depth |-> 2,
                  result |-> ProcessRequestFuture_peek(call.result.future, f)]
    /\ UNCHANGED <<handle, stream, upgrade_future, locks>>

InitPeek ==
    /\ requests \in {SingularRequests, ListRequests}
    /\ now = 0 /\ cache = <<>>
    /\ futs = <<>> /\ out = <<>> /\ calls = <<>>
    /\ call = NoCall
    /\ stream = NoStream
    /\ upgrade_future = NoUpgrade
    /\ locks = LocksFree

NextPeek ==
    \/ PeekCall
    \/ PeekAgain
    \/ Return

SpecPeek == InitPeek /\ [][NextPeek]_vars

(***************************************************************************)
(* Properties.                                                             *)
(***************************************************************************)
\* the request a process-request future was built for
RequestOf(fut) ==
    IF fut.state.variant = "UpToDate" THEN fut.state.request ELSE fut.state.refresh.request

IsProcess(f) == futs[f].impl = "process"
IsGdcf(f) == futs[f].impl = "gdcf"

\* slot f is being filled with a process-request future in this step
Constructs(f) == futs[f] = NoFuture /\ futs'[f].impl = "process"

\* the cache entry the future built in this step was built from
EntryAtConstruction(f) == cache[Fingerprint(RequestOf(futs'[f]))]

\* slot f is polled for the first time in this step
FirstPoll(f) == futs[f] # NoFuture /\ out[f] = NoOut /\ out'[f] # NoOut

\* C1: a future built for a request without force_refresh whose cache entry
\* is Cached and not expired starts UpToDate holding that entry, its first
\* poll returns Ready with exactly that entry, and the API client receives
\* no request: not at construction, not at the poll
C1_FreshCachedServed ==
    [][\A f \in Slots :
         /\ ( /\ Constructs(f)
              /\ ~RequestOf(futs'[f]).force_refresh
              /\ EntryAtConstruction(f).kind = "Cached"
              /\ ~is_expired(EntryAtConstruction(f), now) )
            => /\ futs'[f].state.variant = "UpToDate"
               /\ futs'[f].state.entry = EntryAtConstruction(f)
               /\ calls'[f] = 0
         /\ ( /\ IsProcess(f) /\ futs[f].state.variant = "UpToDate"
              /\ futs[f].state.entry.kind = "Cached"
              /\ FirstPoll(f) )
            => /\ out'[f] = Ready(futs[f].state.entry)
               /\ calls' = calls
               /\ cache' = cache
    ]_vars

\* an UpToDate future built from a Cached entry has returned it from poll
C1_Witness ==
    \E f \in Slots :
        /\ IsProcess(f) /\ futs[f].state.variant = "UpToDate"
        /\ out[f].tag = "Ready" /\ out[f].item.kind = "Cached"
        /\ calls[f] = 0

\* C2: a future built for a request with force_refresh = true is Outdated
\* or Uncached, never UpToDate, whatever the cache holds for the request
C2_ForceNeverUpToDate ==
    \A f \in Slots :
        (IsProcess(f) /\ RequestOf(futs[f]).force_refresh)
            => futs[f].state.variant \in {"Outdated", "Uncached"}

\* a force-refresh request met a fresh Cached entry and the future is Outdated
C2_Witness ==
    \E f \in Slots :
        /\ IsProcess(f) /\ RequestOf(futs[f]).force_refresh
        /\ futs[f].state.variant = "Outdated"
        /\ futs[f].state.entry.kind = "Cached"
        /\ ~is_expired(futs[f].state.entry, now)

\* slot f holds a cached value together with a refresh
HoldsBoth(f) ==
    \/ IsProcess(f) /\ futs[f].state.variant = "Outdated"
    \/ IsGdcf(f) /\ futs[f].cached # None /\ futs[f].refresher # NoRefresh

\* o is what the completed refresh of fut gives: the entry (or object)
\* made from the client's answer, or the client's error
IsRefreshedResult(fut, o) ==
    LET resp == RefreshOf(fut).response
    IN  IF resp.tag = "Ok"
          THEN IF fut.impl = "process"
                 THEN /\ o.tag = "Ready" /\ o.item.kind = "Cached"
                      /\ o.item.value = resp.value
                 ELSE o = Ready(resp.value)
        ELSE IF resp.err = "NoData" /\ fut.impl = "process"
          THEN o.tag = "Ready" /\ o.item.kind = "MarkedAbsent"
        ELSE o = Err("Api", resp.err)

InFlight(key) ==
    {f \in Slots : /\ IsProcess(f)
                   /\ RefreshOf(futs[f]).status = "inflight"
                   /\ Fingerprint(RefreshOf(futs[f]).request) = key}

\* C4: at every instant and for every request fingerprint at most one
\* refresh is in flight, also when several futures for the fingerprint are
\* built and polled concurrently
C4_SingleFlight == \A key \in DOMAIN cache : Cardinality(InFlight(key)) <= 1

\* the step completes the refresh of the process-request future in slot f
CompletesRefresh(f) ==
    /\ IsProcess(f) /\ RefreshOf(futs[f]).status = "inflight"
    /\ futs'[f].impl = "process" /\ RefreshOf(futs'[f]).status = "done"

\* C5: a MarkedAbsent entry that is not expired, read by a request without
\* force_refresh, is served as the answer (UpToDate holding MarkedAbsent,
\* returned by the first poll) without any API call; an expired one is
\* treated like an expired Cached entry: Outdated, with a refresh issued
C5_MarkedAbsentServed ==
    [][\A f \in Slots :
         /\ ( /\ Constructs(f)
              /\ ~RequestOf(futs'[f]).force_refresh
              /\ EntryAtConstruction(f).kind = "MarkedAbsent" )
            => IF ~is_expired(EntryAtConstruction(f), now)
                 THEN /\ futs'[f].state = UpToDate(EntryAtConstruction(f), RequestOf(futs'[f]))
                      /\ calls'[f] = 0
                 ELSE /\ futs'[f].state.variant = "Outdated"
                      /\ futs'[f].state.entry = EntryAtConstruction(f)
                      /\ futs'[f].state.refresh.status = "inflight"
                      /\ calls'[f] = 1
         /\ ( /\ IsProcess(f) /\ futs[f].state.variant = "UpToDate"
              /\ futs[f].state.entry.kind = "MarkedAbsent"
              /\ FirstPoll(f) )
            => /\ out'[f] = Ready(futs[f].state.entry)
               /\ calls' = calls
               /\ cache' = cache
    ]_vars

\* an UpToDate future has served a MarkedAbsent entry without an API call
C5_Witness ==
    \E f \in Slots :
        /\ IsProcess(f) /\ futs[f].state.variant = "UpToDate"
        /\ ~RequestOf(futs[f]).force_refresh
        /\ out[f].tag = "Ready" /\ out[f].item.kind = "MarkedAbsent"
        /\ calls[f] = 0

\* what holds of an Uncached future in every state
UncachedFollowsRefresh(f) ==
    (IsProcess(f) /\ futs[f].state.variant = "Uncached") =>
        /\ calls[f] = 1
        /\ RefreshOf(futs[f]).status \in {"inflight", "done"}
        /\ RefreshOf(futs[f]).status = "inflight" => out[f] \in {NoOut, NotReady}
        /\ RefreshOf(futs[f]).status = "done" => IsRefreshedResult(futs[f], out[f])

\* C6: when the cache entry of the request is Missing the future is built
\* Uncached with a backend call issued for the request, and poll returns
\* exactly the result of that refresh, never Ready before it has completed
C6_MissingIsUncached ==
    [][\A f \in Slots :
         /\ (Constructs(f) /\ EntryAtConstruction(f) = Missing)
            => /\ futs'[f].state = Uncached(RefreshCacheFuture_new(RequestOf(futs'[f])))
               /\ calls'[f] = 1
         /\ UncachedFollowsRefresh(f)'
    ]_vars

\* an Uncached future was pending and has then returned the refreshed entry
C6_Witness ==
    \E f \in Slots :
        /\ IsProcess(f) /\ futs[f].state.variant = "Uncached"
        /\ out[f].tag = "Ready" /\ out[f].item.kind = "Cached"
        /\ RefreshOf(futs[f]).status = "done"

\* C7: when the backend call of a refresh fails with an API error other
\* than NoData, the cache is the same before and after the refresh and the
\* future fails with Error::Api
C7_ApiErrorLeavesCache ==
    [][\A f \in Slots :
         ( /\ CompletesRefresh(f)
           /\ RefreshOf(futs'[f]).response.tag = "Err"
           /\ RefreshOf(futs'[f]).response.err # "NoData" )
         => /\ cache' = cache
            /\ out'[f] = Err("Api", RefreshOf(futs'[f]).response.err)
    ]_vars

\* the refresh of an Outdated future has failed with an API error and the
\* stale entry is still in the cache
C7_Witness ==
    \E f \in Slots :
        /\ IsProcess(f) /\ futs[f].state.variant = "Outdated"
        /\ RefreshOf(futs[f]).status = "done"
        /\ out[f] = Err("Api", "Other")
        /\ cache[Fingerprint(RequestOf(futs[f]))] = futs[f].state.entry

\* C8 as stated: NoData makes the refresh write MarkedAbsent and resolve to
\* it, and every later request for the fingerprint within the expiry window
\* makes no backend call and resolves to MarkedAbsent on its first poll
C8_Original ==
    [][\A f \in Slots :
         /\ ( /\ CompletesRefresh(f)
              /\ RefreshOf(futs'[f]).response = ApiErr("NoData") )
            => /\ cache'[Fingerprint(RequestOf(futs[f]))] = MarkedAbsent(now)
               /\ out'[f] = Ready(MarkedAbsent(now))
         /\ ( /\ Constructs(f)
              /\ EntryAtConstruction(f).kind = "MarkedAbsent"
              /\ ~is_expired(EntryAtConstruction(f), now) )
            => /\ futs'[f].state.variant = "UpToDate"
               /\ calls'[f] = 0
    ]_vars

\* C8, amended: NoData makes the refresh write MarkedAbsent under the
\* request's fingerprint and resolve to it; a later request for the
\* fingerprint that does not force a refresh, within the expiry window,
\* makes no backend call and resolves to MarkedAbsent on its first poll
C8_NoDataMarksAbsent ==
    [][\A f \in Slots :
         /\ ( /\ CompletesRefresh(f)
              /\ RefreshOf(futs'[f]).response = ApiErr("NoData") )
            => /\ cache'[Fingerprint(RequestOf(futs[f]))] = MarkedAbsent(now)
               /\ out'[f] = Ready(MarkedAbsent(now))
         /\ ( /\ Constructs(f)
              /\ ~RequestOf(futs'[f]).force_refresh
              /\ EntryAtConstruction(f).kind = "MarkedAbsent"
              /\ ~is_expired(EntryAtConstruction(f), now) )
            => /\ futs'[f].state.variant = "UpToDate"
               /\ futs'[f].state.entry.kind = "MarkedAbsent"
               /\ calls'[f] = 0
         /\ ( /\ IsProcess(f) /\ futs[f].state.variant = "UpToDate"
              /\ futs[f].state.entry.kind = "MarkedAbsent"
              /\ out[f] = NoOut /\ out'[f] # NoOut )
            => /\ out'[f].tag = "Ready" /\ out'[f].item.kind = "MarkedAbsent"
               /\ calls'[f] = 0
    ]_vars

\* a request without force_refresh met the MarkedAbsent entry an earlier
\* NoData refresh wrote, within the expiry window, and was answered with it
\* on its first poll without a backend call
C8_Witness ==
    \E f \in Slots :
        /\ IsProcess(f) /\ futs[f].state = UpToDate(None, RequestOf(futs[f]))
        /\ ~RequestOf(futs[f]).force_refresh
        /\ out[f] = Ready(cache[Fingerprint(RequestOf(futs[f]))])
        /\ out[f].item.kind = "MarkedAbsent"
        /\ ~is_expired(out[f].item, now)
        /\ calls[f] = 0

\* C9: when a cold fetch resolves to Cached(v), a lookup of the request's
\* fingerprint gives Cached(v) with stored_at the time of the refresh
C9_ColdFetchIsCached ==
    [][\A f \in Slots :
         ( /\ IsProcess(f) /\ futs[f].state.variant = "Uncached"
           /\ out'[f] # out[f]
           /\ out'[f].tag = "Ready" /\ out'[f].item.kind = "Cached" )
         => /\ lookup(cache', Fingerprint(RequestOf(futs[f]))) = out'[f].item
            /\ out'[f].item.stored_at = now
            /\ out'[f].item.value = RefreshOf(futs'[f]).response.value
    ]_vars

\* a cold fetch has resolved to the Cached entry the cache now holds
C9_Witness ==
    \E f \in Slots :
        /\ IsProcess(f) /\ futs[f].state.variant = "Uncached"
        /\ out[f].tag = "Ready" /\ out[f].item.kind = "Cached"
        /\ cache[Fingerprint(RequestOf(futs[f]))] = out[f].item
        /\ out[f].item.stored_at = now

\* the keys of the side objects of a list of levels
HarvestKeys(levels) ==
    {NewgroundsSongKey(s) : s \in SongsOf(levels)}
        \cup {CreatorKey(u) : u \in CreatorsOf(levels)}

\* C10: in every state in which the future of a list request has returned
\* Ready with the response, every creator and song of the response is
\* readable (Cached) under its CreatorKey / NewgroundsSongKey
C10_SideObjectsVisible ==
    \A f \in Slots :
        ( /\ IsProcess(f) /\ RequestOf(futs[f]).type = "LevelsRequest"
          /\ out[f].tag = "Ready" /\ out[f].item.kind = "Cached" )
        => \A k \in HarvestKeys(out[f].item.value) : lookup(cache, k).kind = "Cached"

\* a list future has returned a response with a song and a creator
C10_Witness ==
    \E f \in Slots :
        /\ IsProcess(f) /\ RequestOf(futs[f]).type = "LevelsRequest"
        /\ out[f].tag = "Ready" /\ out[f].item.kind = "Cached"
        /\ NewgroundsSongKey(TheSongId) \in HarvestKeys(out[f].item.value)
        /\ CreatorKey(TheCreatorId) \in HarvestKeys(out[f].item.value)

SameBut(field, before, after) ==
    /\ DOMAIN after = DOMAIN before
    /\ \A g \in DOMAIN before \ {field} : after[g] = before[g]

\* C13: for every partial level a and every resolved upgrade u, downgrade
\* applied to the two results of upgrade(a, u) returns a and u themselves,
\* whatever the song slot and the creator slot hold
C13_DowngradeReversesUpgrade ==
    call.fn = "downgrade"
    => /\ call.result[1] = call.self
       /\ one(call.result[2])[2] = one(call.query)[2]
       /\ call.result = <<call.self, call.query>>

\* a partial level with an embedded song and creator object has been
\* upgraded with a level that has a song id, and downgraded again
C13_Witness ==
    /\ call.fn = "downgrade"
    /\ call.song_ty = "object" /\ call.user_ty = "object"
    /\ call.self.custom_song.kind = "Some" /\ call.self.creator.kind = "Some"
    /\ unwrap(one(call.query)[2]).base.custom_song.kind = "Some"

\* C14: each of the four helpers returns the object with the new value in
\* its slot and every other field as in the input, together with the value
\* the slot held; the song helpers leave the creator slot as it was and the
\* user helpers the song slot
C14_SlotRebinding ==
    /\ call.fn = "change_partial_level_song"
       => /\ call.result[1].custom_song = call.new
          /\ call.result[2] = call.object.custom_song
          /\ SameBut("custom_song", call.object, call.result[1])
          /\ call.result[1].creator = call.object.creator
    /\ call.fn = "change_partial_level_user"
       => /\ call.result[1].creator = call.new
          /\ call.result[2] = call.object.creator
          /\ SameBut("creator", call.object, call.result[1])
          /\ call.result[1].custom_song = call.object.custom_song
    /\ call.fn = "change_level_song"
       => /\ call.result[1].base.custom_song = call.new
          /\ call.result[2] = call.object.base.custom_song
          /\ SameBut("custom_song", call.object.base, call.result[1].base)
          /\ SameBut("base", call.object, call.result[1])
          /\ call.result[1].base.creator = call.object.base.creator
    /\ call.fn = "change_level_user"
       => /\ call.result[1].base.creator = call.new
          /\ call.result[2] = call.object.base.creator
          /\ SameBut("creator", call.object.base, call.result[1].base)
          /\ SameBut("base", call.object, call.result[1])
          /\ call.result[1].base.custom_song = call.object.base.custom_song

\* the song slot of a level that holds a song has been emptied, and the
\* song it held came back with the level
C14_Witness ==
    /\ call.fn = "change_level_song"
    /\ call.new = Unit
    /\ call.object.base.custom_song.kind = "Some"
    /\ call.result[1].base.custom_song = Unit
    /\ call.result[2] = call.object.base.custom_song

\* C15: a stream yields one item for every page that resolves successfully,
\* page after page from the first one; it has ended (Ready(None)) exactly
\* when the page future it polled last failed with NoData or NoContent, so
\* that it ends at the first such page and not before
C15_StreamEndsAtNoData ==
    stream.alive =>
        /\ Len(stream.made) = Len(stream.yielded) + 1
        /\ \A i \in DOMAIN stream.made :
               stream.made[i] = page(LevelsRequest_default, i - 1)
        /\ \A i \in DOMAIN stream.yielded :
               lookup(cache, Fingerprint(stream.made[i])).kind = "Cached"
               /\ lookup(cache, Fingerprint(stream.made[i])).value = stream.yielded[i]
        /\ stream.out = Ready(None)
               <=> ( /\ stream.inner \in {ApiErr("NoData"), ListOk(<<>>)}
                     /\ ~stream.cache_fails )
        /\ (stream.out.tag = "Ready" /\ stream.out.item # None)
               => /\ stream.yielded # <<>>
                  /\ stream.out.item = Some(stream.yielded[Len(stream.yielded)])

\* pages 0 and 1 gave data and page 2 NoData: the stream has yielded two
\* items and has ended
C15_Witness ==
    /\ stream.alive
    /\ Len(stream.yielded) = 2
    /\ stream.inner = ApiErr("NoData")
    /\ stream.out = Ready(None)
    /\ stream.made[Len(stream.made)].page = 2

\* C16: when the page future fails with an error other than NoData and
\* NoContent (another API error, or an error of the cache), poll returns
\* that error; the stream does not end, yields nothing and stays at the page
C16_OtherErrorsPropagate ==
    [][( /\ stream.alive /\ stream'.alive /\ stream' # stream
         /\ stream'.inner = ApiErr("Other") \/ stream'.cache_fails )
       => /\ stream'.out.tag = "Err"
          /\ stream'.out = IF stream'.cache_fails THEN Err("Cache", "store")
                           ELSE Err("Api", stream'.inner.err)
          /\ stream'.yielded = stream.yielded
          /\ stream'.made = stream.made
          /\ stream'.request = stream.request
    ]_vars

\* the second page of a stream has failed with an API error and poll has
\* returned it
C16_Witness ==
    /\ stream.alive
    /\ Len(stream.yielded) = 1
    /\ stream.inner = ApiErr("Other")
    /\ stream.out = Err("Api", "Other")

\* C17: in every state of a GdcfFuture, whatever sequence of cached(),
\* take() and poll() it has seen, at least one of its fields cached and
\* refresher is not None
C17_OneFieldPresent ==
    \A f \in Slots :
        IsGdcf(f) => futs[f].cached # None \/ futs[f].refresher # NoRefresh

\* C18: two requests of the same type that agree on every field except
\* base feed the same sequence of values to the hasher and have the same
\* fingerprint
C18_BaseNotHashed ==
    (call.fn = "hash" /\ call.field = "base")
    => /\ call.result[1] = call.result[2]
       /\ Fingerprint(call.a) = Fingerprint(call.b)

\* two LevelsRequests with different base have been hashed
C18_Witness ==
    /\ call.fn = "hash" /\ call.field = "base"
    /\ call.a.type = "LevelsRequest"
    /\ call.a.base # call.b.base
    /\ call.result[1] = call.result[2]

\* C19: two requests of the same type that differ in one field other than
\* base feed different sequences of values to the hasher; two LevelsRequests
\* that differ in page only are different cache keys
C19_FieldsHashed ==
    (call.fn = "hash" /\ call.field # "base")
    => /\ call.a[call.field] # call.b[call.field]
       /\ call.result[1] # call.result[2]
       /\ Fingerprint(call.a) # Fingerprint(call.b)

\* two LevelsRequests that differ in page only have been hashed
C19_Witness ==
    /\ call.fn = "hash" /\ call.field = "page"
    /\ call.a.page # call.b.page
    /\ [call.a EXCEPT !.page = call.b.page] = call.b
    /\ Fingerprint(call.a) # Fingerprint(call.b)

\* the requests an upgrade future has handed to the API client are the
\* request of the level and then the list request for its song
LevelThenSong(sent) ==
    /\ Len(sent) = 2
    /\ sent[1].type = "LevelRequest" /\ sent[1].level_id = TheLevelId
    /\ Fingerprint(sent[2]) = Fingerprint(song_request(TheSongId))

\* the upgrade future of a single level has resolved to the level
UpgradeResolved ==
    /\ upgrade_future.stage = "alive"
    /\ ~upgrade_future.all
    /\ upgrade_future.out.tag = "Ready"
    /\ upgrade_future.out.item.kind = "Cached"

\* the level the upgrade future resolved to carries the song itself
CarriesSong ==
    upgrade_future.out.item.value.base.custom_song = Some(NewgroundsSong(TheSongId))

\* C20 as stated: in every state in which the upgrade future of a level,
\* whose song was Missing in the cache when the future was built, has
\* resolved to the level, the API client has received exactly two requests,
\* the LevelRequest and then the LevelsRequest for the song, and the level
\* carries the song
C20_Original ==
    (UpgradeResolved /\ upgrade_future.start.song.kind = "Missing")
        => (LevelThenSong(upgrade_future.sent) /\ CarriesSong)

\* C20, amended: for the upgrade future of a level that is not served from
\* the cache (its entry was Missing or expired when the future was built,
\* or the request forced a refresh) and whose song was Missing in the cache when the future was
\* built, in every state the requests the API client has received are the
\* LevelRequest alone or the LevelRequest and then the LevelsRequest for the
\* song, the second only once the entry of the level is known; and when the
\* future has resolved to the level, both were made, the refresh of the
\* second has completed and the level carries the song
C20_FetchedLevelTwoCalls ==
    ( /\ upgrade_future.stage = "alive"
      /\ ~upgrade_future.all
      /\ upgrade_future.start.song.kind = "Missing"
      /\ LET start == upgrade_future.start
         IN  \/ start.level.kind = "Missing"
             \/ start.forced
             \/ is_expired(start.level, start.now) )
    => /\ Len(upgrade_future.sent) \in {1, 2}
       /\ upgrade_future.sent[1].type = "LevelRequest"
       /\ Len(upgrade_future.sent) = 2
            => /\ LevelThenSong(upgrade_future.sent)
               /\ upgrade_future.future.state # "base"
               /\ upgrade_future.future.base # None
       /\ UpgradeResolved
            => /\ LevelThenSong(upgrade_future.sent)
               /\ RefreshOf(upgrade_future.future.sub).status = "done"
               /\ CarriesSong

\* an upgrade future built on a cold cache has resolved to the level with
\* its song, after both requests
C20_Witness ==
    /\ UpgradeResolved
    /\ upgrade_future.start.level.kind = "Missing"
    /\ upgrade_future.start.song.kind = "Missing"
    /\ LevelThenSong(upgrade_future.sent)
    /\ CarriesSong

\* the upgrade future of a list has resolved to the list
UpgradeAllResolved ==
    /\ upgrade_future.stage = "alive"
    /\ upgrade_future.all
    /\ upgrade_future.out.tag = "Ready"
    /\ upgrade_future.out.item.kind = "Cached"

\* the list an upgrade future was given, once it is known
BaseLevels == unwrap(upgrade_future.future.base).value

\* every element of the upgraded list has the song itself where the element
\* it comes from has a song id, and no song where that one has none
ElementsUpgraded ==
    LET upgraded == upgrade_future.out.item.value
    IN  /\ DOMAIN upgraded = DOMAIN BaseLevels
        /\ \A i \in DOMAIN upgraded :
             /\ upgraded[i].level_id = BaseLevels[i].level_id
             /\ upgraded[i].custom_song =
                  IF BaseLevels[i].custom_song = None THEN None
                  ELSE Some(NewgroundsSong(BaseLevels[i].custom_song.value))

\* C21: the upgrade future of a list whose request does not force a refresh
\* finds, once the list is known, the upgrade of every element in the cache
\* or not applicable (no element waits for a request); and in every state
\* in which an upgrade future of a list none of whose elements waited for a
\* request has resolved to the list, the API client has received at most the
\* request of the list itself, every element with a song id carries the
\* song and every element without one carries None
C21_FulfillableNoCalls ==
    (upgrade_future.stage = "alive" /\ upgrade_future.all)
    => /\ ( /\ ~upgrade_future.start.forced
            /\ upgrade_future.future.base # None )
          => /\ upgrade_future.future.need = {}
             /\ upgrade_future.future.state = "done"
       /\ ( /\ UpgradeAllResolved
            /\ upgrade_future.future.need = {}
            /\ upgrade_future.future.subs = <<>> )
          => /\ Len(upgrade_future.sent) <= 1
             /\ \A k \in DOMAIN upgrade_future.sent :
                  Fingerprint(upgrade_future.sent[k]) = Fingerprint(LevelsRequest_default)
             /\ ElementsUpgraded

\* a list of two levels, fetched from the API client, has been upgraded
\* without another request: one element had a song id, the other none
C21_Witness ==
    /\ UpgradeAllResolved
    /\ upgrade_future.future.subs = <<>>
    /\ Len(upgrade_future.sent) = 1
    /\ Len(BaseLevels) = 2
    /\ BaseLevels[1].custom_song # None /\ BaseLevels[2].custom_song = None
    /\ ElementsUpgraded

\* the request of the upgrade resolved to an entry that is not Cached
\* (MarkedAbsent or Missing) and no upgrade had been resolved before
SubRequestGaveNothing ==
    /\ call.fn = "process_query_result"
    /\ one(call.query)[1] # None
    /\ unwrap(one(call.query)[1]).kind \in {"MarkedAbsent", "Missing"}
    /\ one(call.query)[2] = None

\* C22: whenever process_query_result was applied to a query whose request
\* resolved to an entry that is not Cached and that has no upgrade resolved
\* before, it returned UpgradeFailed, and the upgrade future returned that
\* error and no value
C22_UpgradeFailedSurfaces ==
    SubRequestGaveNothing
    => /\ call.result = UpgradeFailed
       /\ call.out = UpgradeFailed
       /\ call.out.tag # "Ready"

\* the request of the upgrade of a partial level resolved to MarkedAbsent
C22_Witness ==
    /\ SubRequestGaveNothing
    /\ unwrap(one(call.query)[1]).kind = "MarkedAbsent"
    /\ call.out.tag = "Err"

\* the future has a cached entry to give to the closure of peek
HoldsEntry(fut) ==
    \/ fut.state.variant = "Outdated"
    \/ fut.state.variant = "UpToDate" /\ fut.state.entry # None

\* C23: peek(f) on a future that is Outdated or UpToDate with its entry
\* calls f once on the entry and returns the future with f's result in the
\* place of the entry, or the error f returned; on any other future it does
\* not call f and returns the future as it was; a future peek returns has
\* the variant, the refresh future, the request and forces_refresh of the
\* one it was given
C23_PeekInPlace ==
    call.fn = "peek"
    => LET fut == call.self
           r == call.result
           fr == call_closure(call.f, fut.state.entry)
       IN  /\ HoldsEntry(fut)
                => /\ r.applied = 1
                   /\ fr.tag = "Err" => (r.tag = "Err" /\ r.error = fr)
                   /\ fr.tag = "Ok" => (r.tag = "Ok" /\ r.future.state.entry = fr.entry)
           /\ ~HoldsEntry(fut)
                => (r.applied = 0 /\ r.tag = "Ok" /\ r.future = fut)
           /\ r.tag = "Ok"
                => /\ r.future.state.variant = fut.state.variant
                   /\ r.future.state.refresh = fut.state.refresh
                   /\ r.future.state.request = fut.state.request
                   /\ r.future.forces_refresh = fut.forces_refresh

\* peek has moved the timestamp of the entry of an Outdated future that an
\* earlier peek returned
C23_Witness ==
    /\ call.fn = "peek" /\ call.depth = 2
    /\ call.self.state.variant = "Outdated" /\ call.f = "later"
    /\ call.result.tag = "Ok" /\ call.result.applied = 1
    /\ call.result.future.state.entry.stored_at = call.self.state.entry.stored_at + 1

\* C24: an UpToDate future that has returned Ready holds no entry any more,
\* and a step of an UpToDate future that holds no entry leaves the future as
\* it is and what its poll returned as it is or turns it into the panic,
\* sends nothing to the API client and, unless it is a step of another
\* future, leaves the cache alone: the entry is returned at most once
C24_EntryDeliveredOnce ==
    [][\A f \in Slots :
         /\ ( /\ futs'[f].impl = "process" /\ futs'[f].state.variant = "UpToDate"
              /\ out'[f].tag = "Ready" )
            => futs'[f].state.entry = None
         /\ ( /\ IsProcess(f) /\ futs[f].state.variant = "UpToDate"
              /\ futs[f].state.entry = None
              /\ futs'[f] # NoFuture )
            => /\ futs'[f] = futs[f]
               /\ out'[f] \in {out[f], Panic}
               /\ calls'[f] = calls[f]
               /\ (\A g \in Slots \ {f} : futs'[g] = futs[g] /\ out'[g] = out[g])
                    => (calls' = calls /\ cache' = cache)
    ]_vars

\* an UpToDate future has been polled again after it had given its entry
C24_Witness ==
    \E f \in Slots :
        /\ IsProcess(f) /\ futs[f].state.variant = "UpToDate"
        /\ futs[f].state.entry = None
        /\ out[f] = Panic

\* C25: no step takes a process-request future to another state variant;
\* an UpToDate future is as it was after every step that changes the cache
\* or the clock; and the step in which an UpToDate future gives its entry
\* returns Ready with the entry it holds, expired or not, sends nothing to
\* the API client and leaves the cache alone
C25_VariantFixed ==
    [][\A f \in Slots :
         /\ (IsProcess(f) /\ futs'[f].impl = "process")
            => futs'[f].state.variant = futs[f].state.variant
         /\ ( /\ IsProcess(f) /\ futs[f].state.variant = "UpToDate"
              /\ (cache' # cache \/ now' # now) )
            => futs'[f] = futs[f]
         /\ ( /\ IsProcess(f) /\ futs[f].state.variant = "UpToDate"
              /\ futs[f].state.entry # None
              /\ futs'[f].impl = "process" /\ futs'[f].state.entry = None )
            => /\ out'[f] = Ready(futs[f].state.entry)
               /\ calls' = calls
               /\ cache' = cache
    ]_vars

\* an UpToDate future has returned an entry that is expired by now
C25_Witness ==
    \E f \in Slots :
        /\ IsProcess(f) /\ futs[f].state.variant = "UpToDate"
        /\ futs[f].state.entry = None
        /\ out[f].tag = "Ready" /\ out[f].item.kind = "Cached"
        /\ is_expired(out[f].item, now)

(***************************************************************************)
(* The mutexes of the handle.                                              *)
(***************************************************************************)
\* C26: between any two steps of the handle neither the cache's nor the
\* client's mutex is held, and no operation, the integrity pass that looks
\* up a song and then requests the levels of that song included, locks the
\* cache while its task holds the guard: no mutex is ever left blocked by
\* its own holder or poisoned
C26_NoLockHeld == locks = LocksFree

\* C30: when the response to a level request arrives, the integrity pass
\* issues the follow-up LevelsRequest for the level exactly if its custom
\* song is a cache miss, the future then staying pending on the follow-up;
\* with no song or a cached one the future resolves at once to the
\* response as it came; and when the follow-up completes the future
\* resolves to the original response
C30_IntegrityFollowUps ==
    [][\A f \in Slots :
         /\ ( /\ IsGdcf(f)
              /\ futs[f].refresher.status = "inflight"
              /\ futs[f].refresher.request.type = "LevelRequest"
              /\ futs[f].refresher.followup = NoFuture
              /\ futs'[f].impl = "gdcf"
              /\ futs'[f].refresher.response.tag = "Ok" )
            => LET response == futs'[f].refresher.response
                   song == response.value.base.custom_song
               IN  IF song # None
                        /\ lookup(cache, NewgroundsSongKey(song.value)).kind # "Cached"
                     THEN /\ futs'[f].refresher.followup # NoFuture
                          /\ futs'[f].refresher.followup.refresher.request
                               = integrity_request(response.value.base.level_id,
                                                   response.value.base.custom_song.value)
                          /\ out'[f] = NotReady
                   ELSE /\ futs'[f].refresher.followup = NoFuture
                        /\ out'[f] = Ready(response.value)
         /\ ( /\ IsGdcf(f)
              /\ futs[f].refresher.status = "inflight"
              /\ futs[f].refresher.followup # NoFuture
              /\ futs'[f].impl = "gdcf"
              /\ out'[f].tag = "Ready" )
            => out'[f] = Ready(futs[f].refresher.response.value)
    ]_vars

(***************************************************************************)
(* Process-request futures that their callers abandon while siblings on    *)
(* the same handle are alive.                                              *)
(***************************************************************************)
\* a dropped future whose drop keeps the cache's mutex when its refresh is
\* in flight
ProcessRequestFuture_drop_holding(fut, l) ==
    IF fut.state.refresh.status = "inflight" THEN [l EXCEPT !.cache = "blocked"] ELSE l

\* the drop glue of ProcessRequestFuture: its fields are dropped, the clone
\* of the handle (two reference counts), the flag and the state with its
\* entry and its refresh future; no guard of a mutex is among them: the
\* mutexes after the drop
ProcessRequestFuture_drop(fut, l) == l

\* a caller drops its process-request future, the first drop of the run;
\* what its refresh was doing and which siblings were pending is noted
Abandon(f) ==
    /\ call = NoCall
    /\ futs[f].impl = "process"
    /\ futs' = [futs EXCEPT ![f] = NoFuture]
    /\ out' = [out EXCEPT ![f] = NoOut]
    /\ calls' = [calls EXCEPT ![f] = 0]
    /\ locks' = ProcessRequestFuture_drop(futs[f], locks)
    /\ call' = [fn |-> "drop", refresh |-> futs[f].state.refresh.status,
                polled |-> out[f].tag,
                pending |-> {g \in Slots \ {f} : IsProcess(g) /\ out[g] = NotReady}]
    /\ UNCHANGED <<requests, now, cache, stream, upgrade_future>>

NextAbandon ==
    \/ \E f \in Slots, req \in requests : New(f, req)
    \/ \E f \in Slots : Poll(f)
    \/ \E f \in Slots : Abandon(f)
    \/ Tick

\* two callers, one future each: the one that is dropped and its sibling
SpecAbandon == InitWith(Cardinality({"dropped", "sibling"})) /\ [][NextAbandon]_vars

CacheErr(op) == [tag |-> "Err", kind |-> "C::Err", err |-> op]

\* Gdcf::process over a cache whose lookup fails or not: [tag, error, state, sent]
process_with(request, c, t, lookup_fails) ==
    IF lookup_fails
      THEN [tag |-> "Err", error |-> CacheErr("lookup"), state |-> NoOut, sent |-> <<>>]
    ELSE LET p == process(request, c, t)
         IN  [tag |-> "Ok", error |-> NoOut, state |-> p.state, sent |-> p.sent]

\* ProcessRequestFuture::new: gdcf.process(request)? gives the cache's
\* error back as it is and no future: [tag, error, future, sent]
ProcessRequestFuture_new_with(request, c, t, lookup_fails) ==
    LET p == process_with(request, c, t, lookup_fails)
    IN  IF p.tag = "Err"
          THEN [tag |-> "Err", error |-> p.error, future |-> NoFuture, sent |-> <<>>]
        ELSE [tag |-> "Ok", error |-> NoOut,
              future |-> [impl |-> "process", forces_refresh |-> forces_refresh(request),
                          state |-> p.state],
              sent |-> p.sent]

\* StreamableFuture::next of ProcessRequestFuture: the request is taken out
\* of the state, whichever it is, moved to its next page and processed as
\* in new, gdcf.process(request).map_err(Error::Cache)?; the flag of the
\* future is kept; the future next was called on is consumed either way
ProcessRequestFuture_next_with(self, c, t, lookup_fails) ==
    LET request == IF self.state.variant = "UpToDate" THEN self.state.request
                   ELSE self.state.refresh.request
        p == process_with(Request_next(request), c, t, lookup_fails)
    IN  IF p.tag = "Err"
          THEN [tag |-> "Err", error |-> Err("Cache", p.error.err), future |-> NoFuture,
                sent |-> <<>>]
        ELSE [tag |-> "Ok", error |-> NoOut,
              future |-> [impl |-> "process", forces_refresh |-> self.forces_refresh,
                          state |-> p.state],
              sent |-> p.sent]

\* the refresh as it would be if it handed the fetched object to the caller
\* when the cache cannot store it
RefreshCacheFuture_poll_with_lenient(r, c, t, inner, store_fails) ==
    LET done == [status |-> "done", request |-> r.request, response |-> inner]
    IN  IF store_fails /\ inner # NotReady /\ inner.tag = "Ok"
          THEN [refresh |-> done, cache |-> c, out |-> Ready(Cached(inner.value, t))]
        ELSE IF store_fails /\ inner # NotReady /\ inner.err = "NoData"
          THEN [refresh |-> done, cache |-> c, out |-> Ready(MarkedAbsent(t))]
        ELSE RefreshCacheFuture_poll(r, c, t, inner)

\* RefreshCacheFuture::poll over a cache whose stores fail or not: when the
\* response is to be written (the object with its songs and creators, or
\* the absent mark after NoData) and the write fails, nothing is written
\* and the future fails with Error::Cache
RefreshCacheFuture_poll_with(r, c, t, inner, store_fails) ==
    LET done == [status |-> "done", request |-> r.request, response |-> inner]
    IN  IF store_fails /\ inner # NotReady /\ (inner.tag = "Ok" \/ inner.err = "NoData")
          THEN [refresh |-> done, cache |-> c, out |-> Err("Cache", CacheErr("store").err)]
        ELSE RefreshCacheFuture_poll(r, c, t, inner)

\* the backend of the cache: whether its lookups and its stores fail now
Backend(lookup_fails, store_fails) ==
    [fn |-> "backend", lookup_fails |-> lookup_fails, store_fails |-> store_fails]

\* one caller that asks for the first page of the default request and for
\* the page after it, empty cache whose backend works
InitFailing ==
    /\ requests = {LevelsRequest_default}
    /\ now = 0
    /\ cache = [k \in Keys({LevelsRequest_default, Request_next(LevelsRequest_default)})
                   |-> Missing]
    /\ futs = <<NoFuture>> /\ out = <<NoOut>> /\ calls = <<0>>
    /\ call = Backend(FALSE, FALSE)
    /\ stream = NoStream
    /\ upgrade_future = NoUpgrade
    /\ locks = LocksFree

\* the backend starts or stops failing
BackendTurns ==
    /\ \E l, s \in BOOLEAN : call' = Backend(l, s)
    /\ call' # call
    /\ UNCHANGED <<requests, now, cache, futs, out, calls, stream, upgrade_future, locks>>

\* handle.levels(req): the future, or the error new returned
TryNew(f, req) ==
    /\ futs[f] = NoFuture
    /\ LET n == ProcessRequestFuture_new_with(req, cache, now, call.lookup_fails)
       IN  /\ futs' = [futs EXCEPT ![f] = n.future]
           /\ calls' = [calls EXCEPT ![f] = Len(n.sent)]
           /\ out' = [out EXCEPT ![f] = n.error]
    /\ UNCHANGED <<requests, now, cache, call, stream, upgrade_future, locks>>

\* future.next(): the future of the next page, or the error next returned
TryNextPage(f) ==
    /\ futs[f].impl = "process"
    /\ RequestOf(futs[f]) \in requests
    /\ LET n == ProcessRequestFuture_next_with(futs[f], cache, now, call.lookup_fails)
       IN  /\ futs' = [futs EXCEPT ![f] = n.future]
           /\ calls' = [calls EXCEPT ![f] = Len(n.sent)]
           /\ out' = [out EXCEPT ![f] = n.error]
    /\ UNCHANGED <<requests, now, cache, call, stream, upgrade_future, locks>>

\* the executor polls the future: ProcessRequestFuture::poll, the refresh
\* of an Uncached or Outdated future writing to the cache as it is now
TryPoll(f) ==
    /\ futs[f].impl = "process"
    /\ ~Resolved(out[f]) \/ futs[f].state.variant = "UpToDate"
    /\ \E inner \in InnerOf(futs[f]) :
         LET fut == futs[f]
             r == RefreshCacheFuture_poll_with(fut.state.refresh, cache, now, inner,
                                              call.store_fails)
             p == IF fut.state.variant \in {"Uncached", "Outdated"}
                    THEN [future |-> [fut EXCEPT !.state.refresh = r.refresh],
                          cache |-> r.cache, out |-> r.out]
                  ELSE ProcessRequestFuture_poll(fut, cache, now, inner)
         IN  /\ futs' = [futs EXCEPT ![f] = p.future]
             /\ cache' = p.cache
             /\ out' = [out EXCEPT ![f] = p.out]
    /\ UNCHANGED <<requests, now, calls, call, stream, upgrade_future, locks>>

NextFailing ==
    \/ BackendTurns
    \/ \E f \in Slots, req \in requests : TryNew(f, req)
    \/ \E f \in Slots : TryNextPage(f)
    \/ \E f \in Slots : TryPoll(f)
    \/ \E f \in Slots : Drop(f)
    \/ Tick

SpecFailing == InitFailing /\ [][NextFailing]_vars

\* slot f holds the future of another request after this step
Paged(f) ==
    /\ IsProcess(f) /\ futs'[f].impl = "process"
    /\ RequestOf(futs'[f]) # RequestOf(futs[f])

\* C28: next() gives, in whichever state the future is, the future that
\* new builds for the page right after the one of its request, every other
\* field of the request as it was; and no future of a further page is
\* built once the page of the future has returned NoData, that is once the
\* future has resolved to the mark that its page has no data
C28_NextPage ==
    [][\A f \in Slots :
         Paged(f)
         => /\ RequestOf(futs'[f]) = page(RequestOf(futs[f]), RequestOf(futs[f]).page + 1)
            /\ futs'[f] = ProcessRequestFuture_new(RequestOf(futs'[f]), cache, now).future
            /\ ~(out[f].tag = "Ready" /\ out[f].item.kind = "MarkedAbsent")
    ]_vars

\* C29: when the response of the client reaches a refresh in a step, one
\* the refresh writes to the cache, and the cache fails to write it, the poll
\* returns Error::Cache, not the fetched entry, and the cache is as it
\* was; while the lookups of the cache fail no future is produced: new on
\* an empty slot leaves it empty and returns the cache's error, and next
\* gives no future of another page but Error::Cache, its future consumed
C29_CacheErrorsSurface ==
    [][\A f \in Slots :
         /\ ( /\ call.store_fails
              /\ IsProcess(f) /\ RefreshOf(futs[f]).status = "inflight"
              /\ futs'[f].impl = "process" /\ RefreshOf(futs'[f]).status = "done"
              /\ LET response == RefreshOf(futs'[f]).response
                 IN  response.tag = "Ok" \/ response.err = "NoData" )
            => /\ out'[f] = Err("Cache", "store")
               /\ cache' = cache
         /\ (futs[f] = NoFuture /\ call.lookup_fails /\ call' = call)
            => /\ futs'[f] = NoFuture
               /\ out'[f] \in {out[f], CacheErr("lookup")}
         /\ (IsProcess(f) /\ call.lookup_fails /\ call' = call)
            => /\ ~Paged(f)
               /\ futs'[f] = NoFuture => out'[f] \in {NoOut, Err("Cache", "lookup")}
    ]_vars

\* the client answered with the object, the store failed and the future
\* has resolved with Error::Cache
C29_Witness ==
    \E f \in Slots :
        /\ IsProcess(f) /\ RefreshOf(futs[f]).status = "done"
        /\ RefreshOf(futs[f]).response.tag = "Ok"
        /\ out[f] = Err("Cache", "store")

(***************************************************************************)
(* gdcf_dbcache: the Database trait (core/backend/mod.rs) and the prepared *)
(* statements its queries are rendered from (core/statement.rs).           *)
(***************************************************************************)
\* the most rows a query of the model yields
MaxRows == 2

\* the most parts a statement of the model is made of
MaxParts == 3

\* Result<T, Error<DB>>
DbOk(v) == [tag |-> "Ok", value |-> v]
DbErr(e) == [tag |-> "Err", err |-> e]

\* enum Error<DB>
Error_Database == [variant |-> "Database", error |-> "DB::Error"]
Error_Conversion(v, target) == [variant |-> "Conversion", value |-> v, target |-> target]
Error_NoResult == [variant |-> "NoResult"]
Error_TooManyRows == [variant |-> "TooManyRows"]

\* the rows a backend can yield: one column, that holds a number or a text
Rows == [col : {"1", "2", "text"}]

\* every sequence over a set, up to a length
RECURSIVE SeqsUpTo(_, _)
SeqsUpTo(S, n) ==
    IF n = 0 THEN {<<>>}
    ELSE LET shorter == SeqsUpTo(S, n - 1)
         IN  shorter \cup {Append(q, x) : q \in {r \in shorter : Len(r) = n - 1}, x \in S}

\* Database::query_raw, left to the backend: its error, or the rows
RawResults == {DbErr(Error_Database)} \cup {DbOk(rows) : rows \in SeqsUpTo(Rows, MaxRows)}

\* T::from_row(&row, 0) for a numeric T
from_row(row) ==
    IF row.col = "text" THEN DbErr(Error_Conversion(row.col, "T"))
    ELSE DbOk([t |-> row.col])

\* the loop of Database::query and query_unprepared: ts.push(T::from_row(..)?)
RECURSIVE push_rows(_, _)
push_rows(rows, ts) ==
    IF rows = <<>> THEN DbOk(ts)
    ELSE LET t == from_row(Head(rows))
         IN  IF t.tag = "Err" THEN t ELSE push_rows(Tail(rows), Append(ts, t.value))

\* Database::query over what query_raw gives
Database_query(raw) == IF raw.tag = "Err" THEN raw ELSE push_rows(raw.value, <<>>)

\* Database::query_rows over what query_raw gives
Database_query_rows(raw) == raw

\* Database::query_unprepared over what query_raw gives
Database_query_unprepared(raw) == IF raw.tag = "Err" THEN raw ELSE push_rows(raw.value, <<>>)

\* Database::query_one, had it returned the first row of several
Database_query_one_first(raw) ==
    LET result == Database_query(raw)
    IN  IF result.tag = "Err" THEN result
        ELSE IF result.value = <<>> THEN DbErr(Error_NoResult)
        ELSE DbOk(result.value[1])

\* Database::query_one
Database_query_one(raw) ==
    LET result == Database_query(raw)
    IN  IF result.tag = "Err" THEN result
        ELSE IF result.value = <<>> THEN DbErr(Error_NoResult)
        ELSE IF Len(result.value) > 1 THEN DbErr(Error_TooManyRows)
        ELSE DbOk(result.value[1])

\* Database::query_one_row
Database_query_one_row(raw) ==
    LET result == Database_query_rows(raw)
    IN  IF result.tag = "Err" THEN result
        ELSE IF result.value = <<>> THEN DbErr(Error_NoResult)
        ELSE IF Len(result.value) > 1 THEN DbErr(Error_TooManyRows)
        ELSE DbOk(result.value[1])

\* Database::query_one_unprepared
Database_query_one_unprepared(raw) ==
    LET result == Database_query_unprepared(raw)
    IN  IF result.tag = "Err" THEN result
        ELSE IF result.value = <<>> THEN DbErr(Error_NoResult)
        ELSE IF Len(result.value) > 1 THEN DbErr(Error_TooManyRows)
        ELSE DbOk(result.value[1])

\* one of the three query_one functions is called; the backend answers
QueryOne ==
    /\ call = NoCall
    /\ \E raw \in RawResults :
         \/ call' = [fn |-> "query_one", raw |-> raw, query |-> Database_query(raw),
                     result |-> Database_query_one(raw)]
         \/ call' = [fn |-> "query_one_row", raw |-> raw, query |-> Database_query_rows(raw),
                     result |-> Database_query_one_row(raw)]
         \/ call' = [fn |-> "query_one_unprepared", raw |-> raw,
                     query |-> Database_query_unprepared(raw),
                     result |-> Database_query_one_unprepared(raw)]
    /\ UNCHANGED <<handle, stream, upgrade_future, locks>>

\* enum StatementPart; From<T: ToString> for StatementPart is Static
Static(string) == [part |-> "Static", string |-> string]
Placeholder == [part |-> "Placeholder"]

\* the parts the statements of the model are made of
Parts == {Static("SELECT"), Static("x"), Placeholder}

\* PreparedStatement::new
PreparedStatement_new(parts) == [parts |-> parts]

\* PreparedStatement::concat: Vec::append moves the parts of other behind
\* the parts of self
concat(self, other) == [self EXCEPT !.parts = @ \o other.parts]

\* PreparedStatement::append: Vec::push
append(self, part) == [self EXCEPT !.parts = Append(@, part)]

\* PreparedStatement::concat_on: append(on), then concat(other)
concat_on(self, other, on) == concat(append(self, on), other)

\* PreparedStatement::prepend: Vec::insert(0, _)
prepend(self, part) == [self EXCEPT !.parts = <<part>> \o @]

\* Database::prepare of a backend with numbered placeholders: the text of
\* a placeholder for an index
prepare(idx) == [text |-> "$", idx |-> idx]

\* the text of a string
Text(string) == [text |-> string]

\* Join::join of the mapped parts: the separator between consecutive items
RECURSIVE join(_, _)
join(items, sep) ==
    IF Len(items) <= 1 THEN items
    ELSE <<Head(items), Text(sep)>> \o join(Tail(items), sep)

\* the closure of to_statement, had it numbered the placeholders by the
\* position of their part
RECURSIVE map_parts_by_position(_, _)
map_parts_by_position(parts, idx) ==
    IF parts = <<>> THEN <<>>
    ELSE IF Head(parts).part = "Static"
      THEN <<Text(Head(parts).string)>> \o map_parts_by_position(Tail(parts), idx + 1)
    ELSE <<prepare(idx + 1)>> \o map_parts_by_position(Tail(parts), idx + 1)

\* the closure of to_statement over the parts, from the index idx on
RECURSIVE map_parts(_, _)
map_parts(parts, idx) ==
    IF parts = <<>> THEN <<>>
    ELSE IF Head(parts).part = "Static"
      THEN <<Text(Head(parts).string)>> \o map_parts(Tail(parts), idx)
    ELSE <<prepare(idx + 1)>> \o map_parts(Tail(parts), idx + 1)

\* PreparedStatement::to_statement: the text, as the sequence of its pieces
to_statement(self) == join(map_parts(self.parts, 0), " ")

\* a statement is made
StatementNew ==
    /\ call = NoCall
    /\ \E parts \in SeqsUpTo(Parts, MaxParts - 1) :
         call' = [fn |-> "new", self |-> PreparedStatement_new(parts)]
    /\ UNCHANGED <<handle, stream, upgrade_future, locks>>

\* the statement is combined with another statement or with a part
Combine ==
    /\ call # NoCall /\ "self" \in DOMAIN call
    /\ \E part \in Parts, other \in SeqsUpTo(Parts, MaxParts - 1) :
         LET o == PreparedStatement_new(other)
         IN  /\ \/ call' = [fn |-> "concat", before |-> call.self, other |-> o,
                            self |-> concat(call.self, o)]
                \/ call' = [fn |-> "concat_on", before |-> call.self, other |-> o,
                            on |-> part, self |-> concat_on(call.self, o, part)]
                \/ call' = [fn |-> "prepend", before |-> call.self, part |-> part,
                            self |-> prepend(call.self, part)]
                \/ call' = [fn |-> "append", before |-> call.self, part |-> part,
                            self |-> append(call.self, part)]
             /\ Len(call'.self.parts) <= MaxParts
    /\ UNCHANGED <<handle, stream, upgrade_future, locks>>

\* the statement is rendered
ToStatement ==
    /\ call # NoCall /\ "self" \in DOMAIN call
    /\ call.fn # "to_statement"
    /\ call' = [fn |-> "to_statement", self |-> call.self, by |-> call.fn,
                statement |-> to_statement(call.self)]
    /\ UNCHANGED <<handle, stream, upgrade_future, locks>>

InitDatabase ==
    /\ HandleIdle
    /\ call = NoCall
    /\ stream = NoStream
    /\ upgrade_future = NoUpgrade
    /\ locks = LocksFree

NextDatabase ==
    \/ QueryOne
    \/ StatementNew
    \/ Combine
    \/ ToStatement
    \/ Return

SpecDatabase == InitDatabase /\ [][NextDatabase]_vars

\* C31: query_one, query_one_row and query_one_unprepared return an error of
\* the query they make as it is, NoResult when the query yields no row,
\* TooManyRows when it yields more than one row, and the value of the row
\* when it yields exactly one
C31_QueryOne ==
    call.fn \in {"query_one", "query_one_row", "query_one_unprepared"}
        => /\ call.query.tag = "Err" => call.result = call.query
           /\ (call.query.tag = "Ok" /\ Len(call.query.value) = 0)
                => call.result = DbErr(Error_NoResult)
           /\ (call.query.tag = "Ok" /\ Len(call.query.value) > 1)
                => call.result = DbErr(Error_TooManyRows)
           /\ (call.query.tag = "Ok" /\ Len(call.query.value) = 1)
                => call.result = DbOk(call.query.value[1])
           /\ call.raw.tag = "Err" => call.result = call.raw

\* query_one has been given two rows by its query
C31_Witness ==
    /\ call.fn = "query_one"
    /\ call.query.tag = "Ok" /\ Len(call.query.value) = 2
    /\ call.result = DbErr(Error_TooManyRows)

\* the number of placeholders among the first n parts
RECURSIVE PlaceholdersIn(_, _)
PlaceholdersIn(parts, n) ==
    IF n = 0 THEN 0
    ELSE PlaceholdersIn(parts, n - 1) + (IF parts[n] = Placeholder THEN 1 ELSE 0)

\* C39: the text of a statement is its parts in their order with one space
\* between two of them, the k-th placeholder from the left rendered for the
\* index k; concat puts the parts of other behind those of self, concat_on
\* the part and then the parts of other, append the part last and prepend
\* the part first
C39_Rendering ==
    /\ call.fn = "to_statement"
         => LET parts == call.self.parts
                s == call.statement
            IN  /\ Len(s) = IF parts = <<>> THEN 0 ELSE 2 * Len(parts) - 1
                /\ \A i \in 1 .. Len(parts) :
                     /\ i > 1 => s[2 * i - 2] = Text(" ")
                     /\ s[2 * i - 1] = IF parts[i] = Placeholder
                                         THEN prepare(PlaceholdersIn(parts, i))
                                       ELSE Text(parts[i].string)
    /\ call.fn = "concat" => call.self.parts = call.before.parts \o call.other.parts
    /\ call.fn = "concat_on"
         => call.self.parts = call.before.parts \o <<call.on>> \o call.other.parts
    /\ call.fn = "prepend" => call.self.parts = <<call.part>> \o call.before.parts
    /\ call.fn = "append" => call.self.parts = call.before.parts \o <<call.part>>

\* a statement with a placeholder behind a static part, put together by
\* prepend, has been rendered: its placeholder has the index 1
C39_Witness ==
    /\ call.fn = "to_statement" /\ call.by = "prepend"
    /\ Len(call.self.parts) = 3
    /\ call.self.parts[1].part = "Static" /\ call.self.parts[2] = Placeholder
    /\ call.self.parts[3] = Placeholder
    /\ call.statement[3] = prepare(1) /\ call.statement[5] = prepare(2)

(***************************************************************************)
(* gdcf_parse: level_password and process_difficulty (level.rs), and the   *)
(* older level_rating (gdcf/src/model/de.rs).  Texts are sequences of      *)
(* characters, decoded and decrypted texts sequences of byte values.       *)
(***************************************************************************)
\* the most characters an encrypted password of the model has
MaxChars == 4

\* Result<_, DecodeError>
ParseOk(v) == [tag |-> "Ok", value |-> v]
DecodeError == [tag |-> "Err", err |-> "DecodeError"]

\* enum Password
Password_NoCopy == [variant |-> "NoCopy"]
Password_FreeCopy == [variant |-> "FreeCopy"]
Password_PasswordCopy(text) == [variant |-> "PasswordCopy", password |-> text]

\* the characters of the model and their values in the URL-safe base64
\* alphabet; "!" is not in the alphabet, "=" is the padding
Sextet == [c \in {"A", "B", "c", "w", "0"} |->
             CASE c = "A" -> 0 [] c = "B" -> 1 [] c = "c" -> 28 [] c = "w" -> 48
               [] c = "0" -> 52]
Characters == DOMAIN Sextet \cup {"=", "!"}

\* the bytes of a run of sextets, and the bits that are left over
RECURSIVE Bytes(_)
Bytes(s) ==
    IF Len(s) >= 4
      THEN <<s[1] * 4 + s[2] \div 16, (s[2] % 16) * 16 + s[3] \div 4, (s[3] % 4) * 64 + s[4]>>
               \o Bytes(SubSeq(s, 5, Len(s)))
    ELSE IF Len(s) = 3 THEN <<s[1] * 4 + s[2] \div 16, (s[2] % 16) * 16 + s[3] \div 4>>
    ELSE IF Len(s) = 2 THEN <<s[1] * 4 + s[2] \div 16>>
    ELSE <<>>
LeftOver(s) ==
    IF Len(s) % 4 = 3 THEN s[Len(s)] % 4
    ELSE IF Len(s) % 4 = 2 THEN s[Len(s)] % 16
    ELSE 0

\* util::b64_decode_string with the URL-safe alphabet: what it can return.
\* A character outside the alphabet, padding inside the text or more than
\* two padding characters, and a length of 1 modulo 4 are errors; a text
\* that lacks its padding or has bits left over is decoded or refused
b64_decode_string(text) ==
    LET pads == Cardinality({i \in 1 .. Len(text) :
                                \A j \in i .. Len(text) : text[j] = "="})
        body == SubSeq(text, 1, Len(text) - pads)
        sextets == [i \in 1 .. Len(body) |-> Sextet[body[i]]]
    IN  IF \E i \in 1 .. Len(body) : body[i] \notin DOMAIN Sextet THEN {DecodeError}
        ELSE IF pads > 2 \/ Len(body) % 4 = 1 THEN {DecodeError}
        ELSE IF Len(text) % 4 = 0 /\ LeftOver(sextets) = 0 THEN {ParseOk(Bytes(sextets))}
        ELSE {ParseOk(Bytes(sextets)), DecodeError}

\* exclusive or of two bytes
RECURSIVE bitxor(_, _)
bitxor(a, b) ==
    IF a = 0 THEN b
    ELSE IF b = 0 THEN a
    ELSE 2 * bitxor(a \div 2, b \div 2) + ((a + b) % 2)

\* the key "26364" of level passwords, as bytes
PasswordKey == <<50, 54, 51, 54, 52>>

\* util::xor_decrypt: every byte with the byte of the key at its position,
\* the key repeated
xor_decrypt(encrypted, key) ==
    [i \in 1 .. Len(encrypted) |-> bitxor(encrypted[i], key[((i - 1) % Len(key)) + 1])]

\* String::remove(0): panics on the empty string
String_remove_first(string) ==
    IF string = <<>> THEN Panic ELSE ParseOk(SubSeq(string, 2, Len(string)))

\* level_password, had it kept the first character of the decrypted text
level_password_keeping(encrypted, decoded) ==
    IF encrypted = <<"0">> THEN ParseOk(Password_NoCopy)
    ELSE IF decoded.tag = "Err" THEN decoded
    ELSE LET decrypted == xor_decrypt(decoded.value, PasswordKey)
         IN  IF Len(decrypted) = 1 THEN ParseOk(Password_FreeCopy)
             ELSE IF String_remove_first(decrypted) = Panic THEN Panic
             ELSE ParseOk(Password_PasswordCopy(decrypted))

\* level_password; decoded is what b64_decode_string returns for the text
level_password(encrypted, decoded) ==
    IF encrypted = <<"0">> THEN ParseOk(Password_NoCopy)
    ELSE IF decoded.tag = "Err" THEN decoded
    ELSE LET decrypted == xor_decrypt(decoded.value, PasswordKey)
             removed == String_remove_first(decrypted)
         IN  IF Len(decrypted) = 1 THEN ParseOk(Password_FreeCopy)
             ELSE IF removed = Panic THEN Panic
             ELSE ParseOk(Password_PasswordCopy(removed.value))

\* the encrypted texts of the model: those that decode to ASCII text or do
\* not decode
EncryptedTexts ==
    {text \in SeqsUpTo(Characters, MaxChars) :
        \A d \in b64_decode_string(text) :
            d.tag = "Ok" => \A i \in 1 .. Len(d.value) : d.value[i] < 128}

\* the password of a level is parsed
LevelPassword ==
    /\ call = NoCall
    /\ \E encrypted \in EncryptedTexts : \E decoded \in b64_decode_string(encrypted) :
         call' = [fn |-> "level_password", encrypted |-> encrypted, decoded |-> decoded,
                  result |-> level_password(encrypted, decoded)]
    /\ UNCHANGED <<handle, stream, upgrade_future, locks>>

\* the texts of integers in the raw objects of the model, and their values
IntegerTexts == [s \in {"0", "1", "10", "50"} |->
                   CASE s = "0" -> 0 [] s = "1" -> 1 [] s = "10" -> 10 [] s = "50" -> 50]

\* str::parse::<i32>
parse_i32(value) ==
    IF value \in DOMAIN IntegerTexts THEN ParseOk(IntegerTexts[value])
    ELSE [tag |-> "Err", err |-> "ParseIntError"]

\* int_to_bool: the integer of the text is not zero
int_to_bool(value) ==
    LET n == parse_i32(value)
    IN  IF n.tag = "Err" THEN n ELSE ParseOk(n.value # 0)

\* enum LevelRating; the conversions From<i32> of LevelRating and of
\* DemonRating are kept apart
LevelRating_Auto == [variant |-> "Auto"]
LevelRating_Demon(demon_rating) == [variant |-> "Demon", rating |-> demon_rating]
LevelRating_from(rating) == [variant |-> "LevelRating::from", value |-> rating]
DemonRating_from(rating) == [variant |-> "DemonRating::from", value |-> rating]

\* process_difficulty, had the auto flag come first
process_difficulty_auto_first(rating, is_auto, is_demon) ==
    IF is_auto THEN LevelRating_Auto
    ELSE IF is_demon THEN LevelRating_Demon(DemonRating_from(rating))
    ELSE LevelRating_from(rating)

\* process_difficulty of the new parser
process_difficulty(rating, is_auto, is_demon) ==
    IF is_demon THEN LevelRating_Demon(DemonRating_from(rating))
    ELSE IF is_auto THEN LevelRating_Auto
    ELSE LevelRating_from(rating)

\* RawObject::get_with_or(index, f, default)
get_with_or(raw_obj, index, default) ==
    IF raw_obj[index] = None THEN ParseOk(default) ELSE int_to_bool(raw_obj[index].value)

\* RawObject::get::<i32>(index)
get(raw_obj, index) ==
    IF raw_obj[index] = None THEN [tag |-> "Err", err |-> "NoValue"]
    ELSE parse_i32(raw_obj[index].value)

\* level_rating of the old parser
level_rating(raw_obj) ==
    LET is_demon == get_with_or(raw_obj, 17, FALSE)
        is_auto == get_with_or(raw_obj, 25, FALSE)
        rating == get(raw_obj, 9)
    IN  IF is_demon.tag = "Err" THEN is_demon
        ELSE IF is_auto.tag = "Err" THEN is_auto
        ELSE IF rating.tag = "Err" THEN rating
        ELSE IF is_demon.value THEN ParseOk(LevelRating_Demon(DemonRating_from(rating.value)))
        ELSE IF is_auto.value THEN ParseOk(LevelRating_Auto)
        ELSE ParseOk(LevelRating_from(rating.value))

\* the difficulty of the parser! of PartialLevel: rating(index = 9),
\* is_demon(index = 17, with = int_to_bool, default), is_auto(index = 25,
\* with = int_to_bool, default), difficulty(custom = process_difficulty)
parse_difficulty(raw_obj) ==
    LET rating == get(raw_obj, 9)
        is_demon == get_with_or(raw_obj, 17, FALSE)
        is_auto == get_with_or(raw_obj, 25, FALSE)
    IN  IF rating.tag = "Err" THEN rating
        ELSE IF is_demon.tag = "Err" THEN is_demon
        ELSE IF is_auto.tag = "Err" THEN is_auto
        ELSE ParseOk(process_difficulty(rating.value, is_auto.value, is_demon.value))

\* the raw objects of the model: a rating at index 9, the flags at 17 and
\* 25 or no value for them
RawObjects ==
    {(9 :> Some(r)) @@ (17 :> d) @@ (25 :> a) :
        r \in {"0", "10", "50"}, d \in {None, Some("0"), Some("1")},
        a \in {None, Some("0"), Some("1")}}

\* the rating of a level is parsed by both parsers
LevelRating ==
    /\ call = NoCall
    /\ \E raw_obj \in RawObjects :
         call' = [fn |-> "rating", raw_obj |-> raw_obj, old |-> level_rating(raw_obj),
                  new |-> parse_difficulty(raw_obj)]
    /\ UNCHANGED <<handle, stream, upgrade_future, locks>>

InitParse ==
    /\ HandleIdle
    /\ call = NoCall
    /\ stream = NoStream
    /\ upgrade_future = NoUpgrade
    /\ locks = LocksFree

NextParse ==
    \/ LevelPassword
    \/ LevelRating
    \/ Return

SpecParse == InitParse /\ [][NextParse]_vars

C38_PasswordTotal ==
    call.fn = "level_password" => call.result.tag \in {"Ok", "Err"}

\* C40: both parsers give Demon of the converted rating when is_demon is
\* set, else Auto when is_auto is set, else the converted rating, and they
\* give the same rating for every raw object
C40_DemonBeforeAuto ==
    call.fn = "rating"
        => LET flag(index) == call.raw_obj[index] = Some("1")
               rating == IntegerTexts[call.raw_obj[9].value]
           IN  /\ call.old = call.new
               /\ call.new.tag = "Ok"
               /\ flag(17) => call.new.value = LevelRating_Demon(DemonRating_from(rating))
               /\ (~flag(17) /\ flag(25)) => call.new.value = LevelRating_Auto
               /\ (~flag(17) /\ ~flag(25)) => call.new.value = LevelRating_from(rating)

\* a level that is both a demon and auto has been parsed
C40_Witness ==
    /\ call.fn = "rating"
    /\ call.raw_obj[17] = Some("1") /\ call.raw_obj[25] = Some("1")
    /\ call.old.tag = "Ok" /\ call.old.value.variant = "Demon"

(***************************************************************************)
(* Upgrade futures built from futures that were peeked into or moved to    *)
(* their next page first, by upgrade or by upgrade_all, over a cache whose *)
(* entries stay fresh.                                                     *)
(***************************************************************************)
InitForced ==
    /\ requests = SingularRequests \cup ListRequests
    /\ now = 0
    /\ \E level \in {Missing, Cached(TheLevel, 0)},
          levels \in {Missing, Cached(ThePartialLevels, 0)} :
         cache = [k \in Keys(requests \cup {Request_next(r) : r \in ListRequests})
                            \cup {Fingerprint(song_request(TheSongId))} |->
                     IF k = Fingerprint(LevelRequest_new(TheLevelId)) THEN level
                     ELSE IF k = Fingerprint(LevelsRequest_default) THEN levels
                     ELSE Missing]
    /\ futs = <<>> /\ out = <<>> /\ calls = <<>>
    /\ call = NoCall
    /\ stream = NoStream
    /\ upgrade_future = NoUpgrade
    /\ locks = LocksFree

\* a future is built for the request, peeked into or moved to its next
\* page or left as it is, and upgraded by upgrade or by upgrade_all
UpgradeAfter(req, pre, via) ==
    /\ upgrade_future = NoUpgrade
    /\ pre = "next" => req.type = "LevelsRequest"
    /\ \E closure \in Closures :
         LET n == ProcessRequestFuture_new(req, cache, now)
             after == IF pre = "peek" THEN ProcessRequestFuture_peek(n.future, closure)
                      ELSE IF pre = "next"
                        THEN ProcessRequestFuture_next_with(n.future, cache, now, FALSE)
                      ELSE [tag |-> "Ok", future |-> n.future]
         IN  /\ after.tag = "Ok"
             /\ pre # "peek" => closure = "later"
             /\ upgrade_future' =
                  [stage |-> "alive", all |-> req.type = "LevelsRequest",
                   future |-> IF via = "upgrade" THEN ProcessRequestFuture_upgrade(after.future)
                              ELSE ProcessRequestFuture_upgrade_all(after.future),
                   out |-> NoOut,
                   sent |-> IF pre = "next" THEN n.sent \o after.sent ELSE n.sent,
                   start |-> [level |-> lookup(cache, Fingerprint(req)),
                              song |-> lookup(cache, NewgroundsSongKey(TheSongId)),
                              forced |-> forces_refresh(req),
                              now |-> now],
                   pre |-> pre, via |-> via, upgraded |-> after.future]
    /\ UNCHANGED <<requests, now, cache, futs, out, calls, call, stream, locks>>

NextForced ==
    \/ \E req \in requests, pre \in {"none", "peek", "next"}, via \in {"upgrade", "upgrade_all"} :
         UpgradeAfter(req, pre, via)
    \/ UpgradePoll
    \/ UpgradeDrop

SpecForced == InitForced /\ [][NextForced]_vars

\* the futures the upgrade future is waiting for, or has waited for, to get
\* what its upgrade depends on
Dependencies(up) ==
    IF up.future.state = "base" THEN {}
    ELSE IF up.all THEN {up.future.subs[i] : i \in up.future.need}
    ELSE {up.future.sub} \ {NoFuture}

\* the object an upgrade future resolved to carries a song
UpgradedWithSong(up) ==
    IF up.all THEN \E i \in DOMAIN up.out.item.value :
                      up.out.item.value[i].custom_song # None
    ELSE up.out.item.value.base.custom_song # None

\* C33: the flag of the request is the flag of the future after peek and
\* next and the flag of the upgrade future; the requests an upgrade future
\* that forces a refresh makes for its dependencies force a refresh, their
\* futures are not UpToDate, and such an upgrade future has not resolved to
\* an upgraded object with a song without a request for the song sent
C33_ForcePropagates ==
    upgrade_future.stage = "alive"
        => /\ upgrade_future.upgraded.forces_refresh = upgrade_future.start.forced
           /\ upgrade_future.future.forces_refresh = upgrade_future.start.forced
           /\ \A d \in Dependencies(upgrade_future) :
                /\ forces_refresh(RequestOf(d)) = upgrade_future.start.forced
                /\ upgrade_future.start.forced => d.state.variant # "UpToDate"
           /\ ( /\ upgrade_future.start.forced
                /\ upgrade_future.out.tag = "Ready"
                /\ upgrade_future.out.item.kind = "Cached"
                /\ UpgradedWithSong(upgrade_future) )
                => \E i \in DOMAIN upgrade_future.sent :
                     upgrade_future.sent[i] = set_force_refresh(song_request(TheSongId), TRUE)

\* an upgrade future built from a forced request, whose future was moved to
\* its next page, has resolved with upgraded levels while the cache held
\* the song: the song was requested again
C33_Witness ==
    /\ upgrade_future.stage = "alive" /\ upgrade_future.start.forced
    /\ upgrade_future.pre = "next"
    /\ upgrade_future.start.song.kind = "Cached"
    /\ upgrade_future.out.tag = "Ready" /\ upgrade_future.out.item.kind = "Cached"
    /\ UpgradedWithSong(upgrade_future)
    /\ Len(upgrade_future.sent) > 2

\* C34: for every future, upgrade_all and upgrade give the same upgrade
\* future: the same flag and the same wrapped future, in the same state;
\* the upgrade future built by either is the one upgrade builds
C34_UpgradeAllIsUpgrade ==
    (upgrade_future.stage = "alive" /\ upgrade_future.out = NoOut)
        => LET source == upgrade_future.upgraded
           IN  /\ ProcessRequestFuture_upgrade_all(source) = ProcessRequestFuture_upgrade(source)
               /\ upgrade_future.future = ProcessRequestFuture_upgrade(source)
               /\ upgrade_future.future.forces_refresh = source.forces_refresh
               /\ upgrade_future.future.source = source

\* upgrade_all has built the upgrade future of a future that forces a
\* refresh and holds an outdated entry
C34_Witness ==
    /\ upgrade_future.stage = "alive" /\ upgrade_future.out = NoOut
    /\ upgrade_future.via = "upgrade_all"
    /\ upgrade_future.future.forces_refresh
    /\ upgrade_future.future.source.state.variant = "Outdated"

(***************************************************************************)
(* Streams that start at the first page or at a later one.                 *)
(***************************************************************************)
\* the pages a stream of the model starts at
StartPages == 0 .. 1

InitPages ==
    /\ requests = {page(LevelsRequest_default, p) : p \in StartPages}
    /\ now = 0
    /\ \E first \in {Missing, Cached(ThePartialLevels, 0)} :
         cache = [k \in StreamKeys |->
                     IF k \in {Fingerprint(r) : r \in requests} THEN first ELSE Missing]
    /\ futs = <<>> /\ out = <<>> /\ calls = <<>>
    /\ call = NoCall
    /\ stream = NoStream
    /\ upgrade_future = NoUpgrade
    /\ locks = LocksFree

NextPages ==
    \/ \E req \in requests : LevelsStream(req)
    \/ StreamPoll
    \/ StreamDrop
    \/ Tick

SpecPages == InitPages /\ [][NextPages]_vars

\* the requests the request_maker of the stream was called with are those of
\* the pages from the first one on, each once and in order; the request the
\* stream holds is the one after the last of them; one more of them than
\* items yielded; every item is what the cache holds for its page
PagesInOrder(st, c) ==
    /\ st.made # <<>>
    /\ \A i \in DOMAIN st.made :
         st.made[i] = page(st.made[1], st.made[1].page + i - 1)
    /\ st.request = page(st.made[1], st.made[1].page + Len(st.made))
    /\ Len(st.made) = Len(st.yielded) + 1
    /\ \A i \in DOMAIN st.yielded :
         /\ lookup(c, Fingerprint(st.made[i])).kind = "Cached"
         /\ lookup(c, Fingerprint(st.made[i])).value = st.yielded[i]

\* C35: a stream started at page p asks for the pages p, p+1, p+2, ... in
\* that order and each once; it holds one page future, which is replaced by
\* the future of the following page only in the poll in which it resolved
\* with a value, the value being yielded by that poll; the items come in
\* page order
C35_PagesInOrder ==
    [][stream'.alive =>
         /\ PagesInOrder(stream', cache')
         /\ ~stream.alive =>
              /\ stream'.yielded = <<>>
              /\ stream'.current = gdcf_many(stream'.made[1], cache, now).future
         /\ (stream.alive /\ stream' # stream) =>
              IF stream'.out.tag = "Ready" /\ stream'.out.item # None
                THEN /\ stream'.made = Append(stream.made, stream.request)
                     /\ stream'.yielded = Append(stream.yielded, stream'.out.item.value)
                     /\ stream'.current = gdcf_many(stream.request, cache', now).future
              ELSE /\ stream'.made = stream.made
                   /\ stream'.yielded = stream.yielded
                   /\ stream'.request = stream.request
                   /\ stream'.current.refresher.request
                        = stream.made[Len(stream.made)]
    ]_vars

\* a stream started at page 1 has yielded the items of pages 1 and 2 and
\* holds the future of page 3
C35_Witness ==
    /\ stream.alive
    /\ stream.made[1].page = 1
    /\ Len(stream.yielded) = 2
    /\ Len(stream.made) = 3
    /\ stream.made[3].page = 3
    /\ stream.out.tag = "Ready" /\ stream.out.item # None


\* C36: process_query_result of a partial level gives the value of the
\* entry the request resolved to whenever that entry is Cached, whether or
\* not an upgrade had been resolved before; it gives the upgrade resolved
\* before when there is no entry, and in no other case; it fails with
\* UpgradeFailed when there is an entry that is not Cached, whether or not
\* an upgrade had been resolved before
C36_CachedResultFirst ==
    call.fn = "process_query_result" =>
        LET state == one(call.query)[1]
            user == one(call.query)[2]
        IN  /\ (state # None /\ unwrap(state).kind = "Cached")
                 => call.result = ResolvedQuery(UpgradeQuery_One(None, Some(unwrap(state).value)))
            /\ (state = None /\ user # None)
                 => call.result = ResolvedQuery(UpgradeQuery_One(None, user))
            /\ (state # None /\ unwrap(state).kind # "Cached")
                 => call.result = UpgradeFailed
            /\ ( /\ call.result.tag = "Ok" /\ state # None )
                 => one(call.result.query)[2] = Some(unwrap(state).value)

\* the request resolved to a Cached level and another level had been
\* resolved before: the result is the Cached one
C36_Witness ==
    /\ call.fn = "process_query_result"
    /\ one(call.query)[1] # None
    /\ unwrap(one(call.query)[1]).kind = "Cached"
    /\ one(call.query)[2] # None
    /\ unwrap(one(call.query)[2]) # unwrap(one(call.query)[1]).value
    /\ call.result = ResolvedQuery(UpgradeQuery_One(None, Some(unwrap(one(call.query)[1]).value)))


(***************************************************************************)
(* Process-request futures that are polled until they resolve, over an API *)
(* client that answers every request and a cache whose backend can fail.   *)
(***************************************************************************)
\* one caller, who builds one future after the other
LiveSlots == {1}

InitLive ==
    /\ requests \in {SingularRequests, ListRequests}
    /\ now = 0
    /\ cache = [k \in Keys(requests) |-> Missing]
    /\ futs = <<NoFuture>> /\ out = <<NoOut>> /\ calls = <<0>>
    /\ call = Backend(FALSE, FALSE)
    /\ stream = NoStream
    /\ upgrade_future = NoUpgrade
    /\ locks = LocksFree

\* the executor polls a future that has not resolved, the client's future
\* giving inner: ProcessRequestFuture::poll, the refresh of an Uncached or
\* Outdated future writing to the cache as it is now
PollUntilResolved(f, inner) ==
    /\ futs[f].impl = "process"
    /\ ~Resolved(out[f])
    /\ inner \in InnerOf(futs[f])
    /\ LET fut == futs[f]
           r == RefreshCacheFuture_poll_with(fut.state.refresh, cache, now, inner,
                                            call.store_fails)
           p == IF fut.state.variant \in {"Uncached", "Outdated"}
                  THEN [future |-> [fut EXCEPT !.state.refresh = r.refresh],
                        cache |-> r.cache, out |-> r.out]
                ELSE ProcessRequestFuture_poll(fut, cache, now, inner)
       IN  /\ futs' = [futs EXCEPT ![f] = p.future]
           /\ cache' = p.cache
           /\ out' = [out EXCEPT ![f] = p.out]
    /\ UNCHANGED <<requests, now, calls, call, stream, upgrade_future, locks>>

\* the caller drops a future that has resolved
DropResolved(f) ==
    /\ Resolved(out[f])
    /\ Drop(f)

NextLive ==
    \/ BackendTurns
    \/ \E f \in Slots, req \in requests : TryNew(f, req)
    \/ \E f \in Slots : \E inner \in InnerOf(futs[f]) : PollUntilResolved(f, inner)
    \/ \E f \in Slots : DropResolved(f)
    \/ Tick

\* the task of a future that has not resolved is polled again and again,
\* and the client's future does not stay pending forever
Fairness ==
    \A f \in LiveSlots :
        /\ WF_vars(\E inner \in InnerOf(futs[f]) : PollUntilResolved(f, inner))
        /\ WF_vars(\E inner \in InnerOf(futs[f]) \ {NotReady} : PollUntilResolved(f, inner))

SpecLive == InitLive /\ [][NextLive]_vars /\ Fairness

\* C37: every process-request future returns Ready or an error in the end;
\* an UpToDate future does so in its first poll, an Uncached or Outdated
\* one in the poll in which its refresh completes, whether the cache took
\* the write or failed
C37_EventuallyResolved ==
    /\ \A f \in LiveSlots :
         (futs[f].impl = "process" /\ ~Resolved(out[f]))
             ~> (out[f].tag \in {"Ready", "Err"})
    /\ [][\A f \in LiveSlots :
            (futs[f].impl = "process" /\ ~Resolved(out[f]) /\ futs'[f].impl = "process")
                => /\ futs[f].state.variant = "UpToDate"
                       => (out'[f] # out[f] => out'[f].tag = "Ready")
                   /\ ( /\ futs[f].state.variant \in {"Uncached", "Outdated"}
                        /\ futs'[f].state.refresh.status = "done" )
                       => out'[f].tag \in {"Ready", "Err"}
                   /\ ( /\ futs[f].state.variant \in {"Uncached", "Outdated"}
                        /\ futs'[f].state.refresh.status # "done" )
                       => out'[f] \in {out[f], NotReady}
       ]_vars

\* the refresh of a future completed while the stores of the cache failed,
\* and the future returned the error of the cache
C37_Witness ==
    \E f \in Slots :
        /\ futs[f].impl = "process"
        /\ futs[f].state.variant \in {"Uncached", "Outdated"}
        /\ futs[f].state.refresh.status = "done"
        /\ call.store_fails
        /\ out[f] = Err("Cache", "store")

====
